---- MODULE Spec2Model ----
(***************************************************************************)
(* A model of bfh: schemas (bfh/__init__.py, bfh/fields.py), the field     *)
(* registry (bfh/interfaces.py), nullish/dedunder (bfh/common.py) and the  *)
(* transformation engine (bfh/transformations.py).                         *)
(*                                                                         *)
(* Python values are tagged records [k |-> kind, v |-> payload]; a raised  *)
(* exception is the value [k |-> "raise", v |-> exception class name].     *)
(* An object is modelled by its value (a tree): instance __dict__ is the   *)
(* partial function v.d, so "never stored" and "stored None" differ.       *)
(***************************************************************************)
EXTENDS Integers, Sequences, FiniteSets, TLC

VARIABLES inst, out, fresh, calls, kept, heap

vars == <<inst, out, fresh, calls, kept, heap>>

----------------------------------------------------------------------------
(* Bounds of the model *)

MaxInt == 1

MaxKwargs == 1

MaxCalls == 3

MaxObjects == 4

\* the longest list of items an ArrayField is handed
MaxItems == 2

----------------------------------------------------------------------------
(* Python values *)

EmptyDict == [x \in {} |-> 0]

PyNone == [k |-> "none", v |-> 0]

PyBool(b) == [k |-> "bool", v |-> b]

PyInt(n) == [k |-> "int", v |-> n]

\* a float, counted in halves: PyFloat(3) is 1.5
PyFloat(x) == [k |-> "float", v |-> x]

PyStr(s) == [k |-> "str", v |-> s]

PyBytes(s) == [k |-> "bytes", v |-> s]

PyList(s) == [k |-> "list", v |-> s]

PyDict(f) == [k |-> "dict", v |-> f]

PyObject(f) == [k |-> "obj", v |-> f]

\* a zero-argument function, given by the value every call of it builds
Callable(product) == [k |-> "callable", v |-> product]

Raise(e) == [k |-> "raise", v |-> e]

IsRaise(x) == x.k = "raise"

\* bytes that are not valid utf-8 (b"\xff")
BadBytes == "\\xff"

\* the keys of both, a winning on shared keys
MergeFirstWins(a, b) == [x \in (DOMAIN a) \cup (DOMAIN b) |-> IF x \in DOMAIN a THEN a[x] ELSE b[x]]

\* dict(a, **b): the keys of both, b winning on shared keys
Merge(a, b) == [x \in (DOMAIN a) \cup (DOMAIN b) |-> IF x \in DOMAIN b THEN b[x] ELSE a[x]]

Put(f, key, val) == [x \in (DOMAIN f) \cup {key} |-> IF x = key THEN val ELSE f[x]]

RECURSIVE SetToSeq(_)
\* an iteration order of a set of keys (a dict's insertion order is one such order)
SetToSeq(S) == IF S = {} THEN <<>> ELSE LET x == CHOOSE y \in S : TRUE IN <<x>> \o SetToSeq(S \ {x})

Range(s) == {s[i] : i \in DOMAIN s}

----------------------------------------------------------------------------
(* Names as character sequences: the string operations of the source act   *)
(* on characters.  Names that start with an underscore are spelled out;    *)
(* any other name is one opaque token (no operation below looks inside a   *)
(* name that does not start with an underscore).                           *)

NameTable == { <<"__if", <<"_", "_", "i", "f">> >>,
               <<"_Fancy__if", <<"_", "F", "_", "_", "i", "f">> >>,
               <<"_Fancy__a", <<"_", "F", "_", "_", "a">> >>,
               <<"if", <<"i", "f">> >> }

Chars(n) == IF \E p \in NameTable : p[1] = n
            THEN (CHOOSE p \in NameTable : p[1] = n)[2]
            ELSE <<n>>

NameOf(cs) == IF \E p \in NameTable : p[2] = cs
              THEN (CHOOSE p \in NameTable : p[2] = cs)[1]
              ELSE IF Len(cs) = 1 THEN cs[1] ELSE "?"

\* str.startswith("__")
StartsWithDunder(cs) == Len(cs) >= 2 /\ cs[1] = "_" /\ cs[2] = "_"

RECURSIVE LStrip(_)
LStrip(cs) == IF Len(cs) > 0 /\ cs[1] = "_" THEN LStrip(Tail(cs)) ELSE cs

RECURSIVE RStrip(_)
RStrip(cs) == IF Len(cs) > 0 /\ cs[Len(cs)] = "_" THEN RStrip(SubSeq(cs, 1, Len(cs) - 1)) ELSE cs

\* str.strip("_")
Strip(cs) == RStrip(LStrip(cs))

\* DUNDER_MATCH = r'_.+?__' matched at the head of cs: the end index of the
\* (lazy, so shortest) match, or 0 when there is none
DunderMatchEnd(cs) ==
    IF Len(cs) >= 4 /\ cs[1] = "_" /\ (\E i \in 3..(Len(cs) - 1) : cs[i] = "_" /\ cs[i + 1] = "_")
    THEN (CHOOSE i \in 3..(Len(cs) - 1) :
              /\ cs[i] = "_" /\ cs[i + 1] = "_"
              /\ \A j \in 3..(i - 1) : ~(cs[j] = "_" /\ cs[j + 1] = "_")) + 1
    ELSE 0

RECURSIVE DunderSub(_)
\* DUNDER_MATCH.sub('', name): every non-overlapping match removed
DunderSub(cs) ==
    IF Len(cs) = 0 THEN <<>>
    ELSE IF DunderMatchEnd(cs) > 0 THEN DunderSub(SubSeq(cs, DunderMatchEnd(cs) + 1, Len(cs)))
    ELSE <<cs[1]>> \o DunderSub(Tail(cs))

dedunder(name) ==
    IF DunderMatchEnd(Chars(name)) > 0 THEN NameOf(DunderSub(Chars(name))) ELSE name

\* Schema.__init__'s own un-escaping of a keyword
InitKey(key) == IF StartsWithDunder(Chars(key)) THEN NameOf(Strip(Chars(key))) ELSE key

----------------------------------------------------------------------------
(* Field declarations.  A field object is a record; subschema_class and    *)
(* array_type name a class ("" is None, "int" the primitive int).          *)

Field(type, attr) ==
    [type |-> type, attr |-> attr, required |-> TRUE, default |-> PyNone,
     subschema_class |-> "", array_type |-> "", strict |-> FALSE]

Subschema(attr, cls) == [Field("Subschema", attr) EXCEPT !.subschema_class = cls]

ArrayField(attr, ty) == [Field("ArrayField", attr) EXCEPT !.array_type = ty]

\* The class bodies, each as dir(new_class) lists its field attributes
\* (dir() is sorted by attribute name; a name written __if in the body of
\* class Fancy is the attribute _Fancy__if).
ClassDecl ==
    [Schema1 |-> << Field("UnicodeField", "another_str"), Field("IntegerField", "my_int"),
                    Field("UnicodeField", "my_str") >>,
     DefaultsSchema |-> << [Field("UnicodeField", "defaulted") EXCEPT !.default = PyStr("testing")],
                           Field("UnicodeField", "not_defaulted") >>,
     Person |-> << Field("UnicodeField", "first_name"), Field("UnicodeField", "last_name") >>,
     Ship |-> << Subschema("captain", "Person"), Field("UnicodeField", "name") >>,
     Conversation |-> << ArrayField("conversants", "Person"), ArrayField("numbers", "int") >>,
     Ark |-> << Subschema("pair", "Conversation") >>,
     Fancy |-> << Field("IntegerField", "_Fancy__if"), Field("IntegerField", "a") >>,
     FirstSchema |-> << [Field("IntegerField", "umm") EXCEPT !.required = FALSE],
                        Field("IntegerField", "wow") >>,
     OtherSchema |-> << Field("IntegerField", "bad"), Field("IntegerField", "cool") >>,
     FooSchema |-> << [Field("UnicodeField", "foo") EXCEPT
                          !.required = FALSE, !.default = Callable(PyDict([wow |-> PyInt(1)]))] >>,
     SourceSub |-> << [Field("IntegerField", "something") EXCEPT !.required = FALSE] >>,
     Source |-> << [Subschema("inner", "SourceSub") EXCEPT !.required = FALSE] >>,
     TargetSub |-> << [Field("IntegerField", "wow") EXCEPT !.required = FALSE] >>,
     Target |-> << [Subschema("inner", "TargetSub") EXCEPT !.required = FALSE] >>,
     Holder |-> << Field("Field", "anything"), Field("ObjectField", "obj") >>]

SchemaClasses == DOMAIN ClassDecl

\* the classes a caller constructs; the others are the schemas of mappings
ConstructedClasses == SchemaClasses \ {"SourceSub", "Source", "TargetSub", "Target", "Holder"}

\* HasFieldsMeta.__new__: _field_names, one entry per field attribute
FieldNames(cls) == [i \in DOMAIN ClassDecl[cls] |-> dedunder(ClassDecl[cls][i].attr)]

\* HasFieldsMeta.__new__: _fields, the later attribute winning on a shared name
Fields(cls) ==
    [n \in Range(FieldNames(cls)) |->
        LET i == CHOOSE j \in DOMAIN ClassDecl[cls] :
                     /\ FieldNames(cls)[j] = n
                     /\ \A l \in DOMAIN ClassDecl[cls] : FieldNames(cls)[l] = n => l <= j
        IN ClassDecl[cls][i]]

RECURSIVE Dedup(_)
\* the first occurrence of each entry, in order
Dedup(seq) ==
    IF seq = <<>> THEN <<>>
    ELSE <<Head(seq)>> \o Dedup(SelectSeq(Tail(seq), LAMBDA x : x # Head(seq)))

\* _fields.keys(): a dict keeps the order in which its keys were first set
FieldKeys(cls) == Dedup(FieldNames(cls))

\* Field.field_name of a registered field: the name the registry gave it
field_name(field) == dedunder(field.attr)

\* the Subschema fields of a class
SubschemaNames(cls) == {n \in DOMAIN Fields(cls) : Fields(cls)[n].type = "Subschema"}

\* Field.default: a callable default is called, anything else is returned
default(field) == IF field.default.k = "callable" THEN field.default.v ELSE field.default

\* the data descriptor that attribute lookup on the class finds under name
HasDescriptor(cls, name) == \E i \in DOMAIN ClassDecl[cls] : ClassDecl[cls][i].attr = name

Descriptor(cls, name) == ClassDecl[cls][CHOOSE i \in DOMAIN ClassDecl[cls] : ClassDecl[cls][i].attr = name]

----------------------------------------------------------------------------
(* Schema instances *)

Instance(cls, d, raw) == [k |-> "inst", v |-> [cls |-> cls, d |-> d, raw |-> raw]]

GenericSchema(d) == [k |-> "generic", v |-> d]

IsSchema(x) == x.k \in {"inst", "generic"}

SetDict(self, name, value) == [self EXCEPT !.v.d = Put(self.v.d, name, value)]

(* The operations below call one another recursively (a nested instance is  *)
(* constructed, serialized, tested for emptiness from within its parent's  *)
(* operation): each such call is made through Call, which dispatches on    *)
(* the name of the operation.  An operation is written as a chain of       *)
(* steps, each step taking what the step before it computed.               *)
RECURSIVE Call(_, _, _, _)

\* cls(*args, **kwargs)
SchemaInit(cls, args, kwargs) == Call("Schema.__init__", cls, args, kwargs)

\* value.is_empty of a Schema or GenericSchema instance
is_empty(self) == Call("is_empty", self, 0, 0)

\* value.serialize(implicit_nulls=...) of a Schema or GenericSchema instance
serialize(self, implicit_nulls) == Call("serialize", self, implicit_nulls, 0)

\* GenericSchema._serialize_value
SerializeValue(value, implicit_nulls) == Call("_serialize_value", value, implicit_nulls, 0)

\* value.validate() of a Schema or GenericSchema instance
validate(self) == Call("validate", self, 0, 0)

\* value._raw of a Schema or GenericSchema instance
Raw(self) == Call("_raw", self, 0, 0)

\* _get_raw_value(value)
GetRawValue(value) == Call("_get_raw_value", value, 0, 0)

RECURSIVE InitSubschemas(_, _)
RECURSIVE SchemaValidate(_, _)
RECURSIVE InitKwargs(_, _, _)
RECURSIVE SchemaIsEmpty(_, _)
RECURSIVE GenericIsEmpty(_, _)
RECURSIVE AllNullish(_, _)
RECURSIVE SchemaSerialize(_, _, _, _)
RECURSIVE GenericSerialize(_, _, _, _)
RECURSIVE SerializeItems(_, _, _, _)
RECURSIVE ArraySerialize(_, _, _, _)

\* what an operation hands back: its result (or the exception it raised) and
\* the object it worked on as the operation left it
Ret(val, obj) == [val |-> val, obj |-> obj]

\* ArrayField.__set__, lines 345-353: each dict item becomes an array_type instance
ArrayCoerce(field, items) ==
    PyList([i \in DOMAIN items |->
               IF items[i].k = "dict" THEN SchemaInit(field.array_type, <<>>, items[i].v)
               ELSE items[i]])

\* the value Field.__set__, Subschema.__set__ or ArrayField.__set__ stores
FieldCoerce(field, value) ==
    CASE field.type = "Subschema" /\ value.k = "dict" -> SchemaInit(field.subschema_class, <<>>, value.v)
      [] field.type = "ArrayField" /\ field.array_type \in SchemaClasses /\ value.k = "list" ->
            ArrayCoerce(field, value.v)
      [] OTHER -> value

\* Field.__set__, Subschema.__set__, ArrayField.__set__
FieldSet(field, self, value) == SetDict(self, field_name(field), FieldCoerce(field, value))

\* Field.__get__ testing "if value" where the source tests "is not None"
FieldGetStoredTruthy(field, self, value) ==
    IF value \notin {PyNone, PyBool(FALSE), PyInt(0), PyStr(""), PyList(<<>>), PyDict(EmptyDict)}
    THEN Ret(value, self)
    ELSE Ret(default(field), SetDict(self, field_name(field), default(field)))

\* Field.__get__, lines 66-71: a stored None reads as the default, which is stored
FieldGetStored(field, self, value) ==
    IF value # PyNone THEN Ret(value, self)
    ELSE Ret(default(field), SetDict(self, field_name(field), default(field)))

\* instance.__dict__.get(name)
DictGet(d, name) == IF name \in DOMAIN d THEN d[name] ELSE PyNone

\* Field.__get__
FieldGet(field, self) == FieldGetStored(field, self, DictGet(self.v.d, field_name(field)))

\* object.__setattr__: a data descriptor of the class under that very name
\* takes the write, otherwise the instance __dict__ does
ObjectSetattr(self, name, value) ==
    IF HasDescriptor(self.v.cls, name)
    THEN FieldSet(Descriptor(self.v.cls, name), self, value)
    ELSE SetDict(self, name, value)

\* Schema.__setattr__
SchemaSetattr(self, name, value) == ObjectSetattr(self, dedunder(name), value)

\* object.__getattribute__
ObjectGetattribute(self, name) ==
    IF HasDescriptor(self.v.cls, name)
    THEN FieldGet(Descriptor(self.v.cls, name), self)
    ELSE IF name \in DOMAIN self.v.d
         THEN Ret(self.v.d[name], self)
         ELSE Ret(Raise("AttributeError"), self)

\* Schema.__getattr__, called when normal lookup raised AttributeError
SchemaGetattrFallback(self, name, found) ==
    IF IsRaise(found.val) THEN ObjectGetattribute(self, dedunder(name)) ELSE found

\* getattr(schema_instance, name)
SchemaGetattr(self, name) == SchemaGetattrFallback(self, name, ObjectGetattribute(self, name))

\* the attributes of the class GenericSchema: its methods, which an instance
\* attribute of the same name hides, and its properties, which come first
GenericMethods == {"serialize", "validate"}

GenericProperties == {"is_empty", "_raw"}

\* a bound method of the instance
Method(name) == [k |-> "method", v |-> name]

\* the property of a GenericSchema instance read
GenericProperty(self, name) == IF name = "is_empty" THEN is_empty(self) ELSE Raw(self)

\* normal lookup alone, without GenericSchema.__getattr__
GenericGetattrNoFallback(self, name) ==
    IF name \in GenericProperties THEN GenericProperty(self, name)
    ELSE IF name \in DOMAIN self.v THEN Ret(self.v[name], self)
    ELSE IF name \in GenericMethods THEN Ret(Method(name), self)
    ELSE Ret(Raise("AttributeError"), self)

\* getattr(generic, name): normal lookup (the properties of the class, the
\* instance __dict__, the methods of the class), then GenericSchema.__getattr__
GenericGetattr(self, name) ==
    IF name \in GenericProperties THEN GenericProperty(self, name)
    ELSE IF name \in DOMAIN self.v THEN Ret(self.v[name], self)
    ELSE IF name \in GenericMethods THEN Ret(Method(name), self)
    ELSE Ret(DictGet(self.v, name), self)

\* setattr(generic, name, value): a property of the class has no setter
GenericSetattr(self, name, value) ==
    IF name \in GenericProperties THEN Ret(Raise("AttributeError"), self)
    ELSE Ret(PyNone, [self EXCEPT !.v = Put(@, name, value)])

\* GenericSchema(**kwargs): GenericSchema.__init__ sets every keyword
GenericInit(kwargs) ==
    IF DOMAIN kwargs \cap GenericProperties # {} THEN Raise("AttributeError")
    ELSE GenericSchema(kwargs)

\* generic.validate(): the attribute is looked up, then called
GenericValidate(self) ==
    IF "validate" \in DOMAIN self.v THEN Ret(Raise("TypeError"), self) ELSE validate(self)

\* Schema.__init__, lines 76-77, for one field
InitSubschema(self, name, field) ==
    IF field.type = "Subschema"
    THEN SchemaSetattr(self, name, SchemaInit(field.subschema_class, <<>>, EmptyDict))
    ELSE self

\* Schema.__init__, lines 75-77: an empty nested instance per Subschema field
InitSubschemas(self, names) ==
    IF names = <<>> THEN self
    ELSE InitSubschemas(InitSubschema(self, Head(names), Fields(self.v.cls)[Head(names)]), Tail(names))

\* Schema.__init__, lines 84-85, for one keyword (already un-escaped)
InitKwarg(self, key, value) ==
    IF key \in Range(FieldNames(self.v.cls)) THEN SchemaSetattr(self, key, value) ELSE self

\* Schema.__init__, lines 80-85: the keywords that name a field are assigned
InitKwargs(self, keys, kwargs) ==
    IF keys = <<>> THEN self
    ELSE InitKwargs(InitKwarg(self, InitKey(Head(keys)), kwargs[Head(keys)]), Tail(keys), kwargs)

\* Schema.__init__(*args, **kwargs); kwargs is iterated in one fixed order
SchemaInitBody(cls, args, kwargs) ==
    IF Len(args) = 1 /\ args[1].k = "dict"
    THEN SchemaInit(cls, <<>>, Merge(args[1].v, kwargs))
    ELSE InitKwargs(InitSubschemas(Instance(cls, EmptyDict, kwargs), FieldKeys(cls)),
                    SetToSeq(DOMAIN kwargs), kwargs)

----------------------------------------------------------------------------
(* nullish, is_empty *)

\* NULLISH = (None, {}, [], tuple()); a tuple is modelled as a list
NULLISH == {PyNone, PyDict(EmptyDict), PyList(<<>>)}

\* common.nullish
nullish(value, implicit_nulls) ==
    IF implicit_nulls
    THEN IF IsSchema(value) THEN is_empty(value) ELSE Ret(PyBool(value \in NULLISH), value)
    ELSE Ret(PyBool(value = PyNone), value)

\* Schema.is_empty, lines 142-143: return False at the first non-nullish value
SchemaIsEmptyTest(self, i, name, nl) ==
    IF nl.val = PyBool(TRUE) THEN SchemaIsEmpty(SetDict(self, name, nl.obj), i + 1)
    ELSE Ret(nl.val, SetDict(self, name, nl.obj))

\* Schema.is_empty, line 142: getattr(self, name)
SchemaIsEmptyRead(i, name, g) ==
    IF IsRaise(g.val) THEN g ELSE SchemaIsEmptyTest(g.obj, i, name, nullish(g.val, TRUE))

\* Schema.is_empty, the loop from the i-th field name on
SchemaIsEmpty(self, i) ==
    IF i > Len(FieldNames(self.v.cls)) THEN Ret(PyBool(TRUE), self)
    ELSE SchemaIsEmptyRead(i, FieldNames(self.v.cls)[i], SchemaGetattr(self, FieldNames(self.v.cls)[i]))

\* GenericSchema.is_empty, one attribute tested
GenericIsEmptyTest(self, keys, nl) ==
    IF nl.val = PyBool(TRUE) THEN GenericIsEmpty([self EXCEPT !.v[Head(keys)] = nl.obj], Tail(keys))
    ELSE Ret(nl.val, [self EXCEPT !.v[Head(keys)] = nl.obj])

\* GenericSchema.is_empty: all(nullish(v) for v in self.__dict__.values())
GenericIsEmpty(self, keys) ==
    IF keys = <<>> THEN Ret(PyBool(TRUE), self)
    ELSE GenericIsEmptyTest(self, keys, nullish(self.v[Head(keys)], TRUE))

\* Schema.is_empty or GenericSchema.is_empty, by the class of self
IsEmptyBody(self) ==
    IF self.k = "inst" THEN SchemaIsEmpty(self, 1) ELSE GenericIsEmpty(self, SetToSeq(DOMAIN self.v))

AllNullishTest(f, keys, nl) ==
    IF nl.val = PyBool(TRUE) THEN AllNullish([f EXCEPT ![Head(keys)] = nl.obj], Tail(keys))
    ELSE Ret(nl.val, [f EXCEPT ![Head(keys)] = nl.obj])

\* all(nullish(v) for v in value.values()) over the dict f
AllNullish(f, keys) ==
    IF keys = <<>> THEN Ret(PyBool(TRUE), f)
    ELSE AllNullishTest(f, keys, nullish(f[Head(keys)], TRUE))

----------------------------------------------------------------------------
(* serialize *)

\* bytes.decode('utf-8')
decode(value) == IF value.v = BadBytes THEN Raise("UnicodeDecodeError") ELSE PyStr(value.v)

\* UnicodeField._coerce: value.decode is missing on anything but bytes
\* (AttributeError, turned into Invalid), except on a GenericSchema, whose
\* __getattr__ answers None, and None(...) is a TypeError
UnicodeCoerce(value) ==
    IF value.k = "str" THEN value
    ELSE IF value.k = "bytes" THEN decode(value)
    ELSE IF value.k = "generic" THEN Raise("TypeError")
    ELSE Raise("Invalid")

\* UnicodeField.serialize without its except clause: Invalid propagates
ExceptNothing(coerced, value) == coerced

\* UnicodeField.serialize, lines 255-256: "we are not in the business of validation here"
ExceptInvalid(coerced, value) == IF coerced = Raise("Invalid") THEN value ELSE coerced

\* UnicodeField.serialize
UnicodeSerialize(value) == ExceptInvalid(UnicodeCoerce(value), value)

\* value.serialize() called without handing implicit_nulls on
SerializeIfSchemaExplicit(value, implicit_nulls) ==
    IF IsSchema(value) THEN serialize(value, FALSE) ELSE Ret(value, value)

\* value.serialize(...) when the value has a serialize attribute
SerializeIfSchema(value, implicit_nulls) ==
    IF IsSchema(value) THEN serialize(value, implicit_nulls) ELSE Ret(value, value)

\* Subschema.serialize, lines 147-151: a dict of nullish values collapses to {}
ObjectCollapse(value, s, an) ==
    IF IsRaise(an.val) THEN Ret(an.val, IF IsSchema(value) THEN s.obj ELSE PyDict(an.obj))
    ELSE IF an.val = PyBool(TRUE)
         THEN Ret(PyDict(EmptyDict), IF IsSchema(value) THEN s.obj ELSE PyDict(an.obj))
         ELSE IF IsSchema(value) THEN s ELSE Ret(PyDict(an.obj), PyDict(an.obj))

\* Subschema.serialize, lines 144-151
ObjectSerialized(value, implicit_nulls, s) ==
    IF IsRaise(s.val) THEN s
    ELSE IF s.val = PyNone THEN Ret(PyDict(EmptyDict), s.obj)
    ELSE IF s.val.k = "dict" /\ implicit_nulls
         THEN ObjectCollapse(value, s, AllNullish(s.val.v, SetToSeq(DOMAIN s.val.v)))
         ELSE s

\* Subschema.serialize and ObjectField.serialize (the same body)
ObjectSerialize(value, implicit_nulls) ==
    ObjectSerialized(value, implicit_nulls, SerializeIfSchema(value, implicit_nulls))

\* ArrayField.serialize, lines 393-394: a nullish item is left out
ArrayItem(items, implicit_nulls, i, acc, flat) ==
    IF IsRaise(flat.val) THEN Ret(flat.val, PyList([items EXCEPT ![i] = flat.obj]))
    ELSE ArraySerialize([items EXCEPT ![i] = flat.obj], implicit_nulls, i + 1,
                        IF nullish(flat.val, implicit_nulls).val = PyBool(TRUE) THEN acc
                        ELSE Append(acc, flat.val))

\* ArrayField.serialize, the loop from the i-th item on (_flatten per item)
ArraySerialize(items, implicit_nulls, i, acc) ==
    IF i > Len(items) THEN Ret(PyList(acc), PyList(items))
    ELSE ArrayItem(items, implicit_nulls, i, acc, SerializeIfSchema(items[i], implicit_nulls))

\* field.serialize(value, implicit_nulls=implicit_nulls)
FieldSerialize(field, value, implicit_nulls) ==
    CASE field.type \in {"UnicodeField", "IsoDateString"} -> Ret(UnicodeSerialize(value), value)
      [] field.type \in {"Subschema", "ObjectField"} -> ObjectSerialize(value, implicit_nulls)
      [] field.type = "ArrayField" /\ value.k = "list" -> ArraySerialize(value.v, implicit_nulls, 1, <<>>)
      [] OTHER -> Ret(value, value)

\* Schema.serialize with lines 118-120 missing: every key is stored
SchemaSerializeStoreAll(self, implicit_nulls, i, outd, name, vs) ==
    IF IsRaise(vs.val) THEN Ret(vs.val, SetDict(self, name, vs.obj))
    ELSE SchemaSerialize(SetDict(self, name, vs.obj), implicit_nulls, i + 1, Put(outd, name, vs.val))

\* Schema.serialize, lines 118-122: a nullish value is left out under implicit_nulls
SchemaSerializeStore(self, implicit_nulls, i, outd, name, vs) ==
    IF IsRaise(vs.val) THEN Ret(vs.val, SetDict(self, name, vs.obj))
    ELSE SchemaSerialize(SetDict(self, name, vs.obj), implicit_nulls, i + 1,
                         IF implicit_nulls /\ nullish(vs.val, implicit_nulls).val = PyBool(TRUE)
                         THEN outd ELSE Put(outd, name, vs.val))

\* Schema.serialize, lines 115-116: a value that has serialize is serialized
SchemaSerializeValue(self, implicit_nulls, i, outd, name, fs) ==
    SchemaSerializeStore(self, implicit_nulls, i, outd, name,
                         IF IsSchema(fs.val) THEN serialize(fs.val, implicit_nulls) ELSE fs)

\* Schema.serialize, lines 110-113: the field serializes the value read
SchemaSerializeRead(implicit_nulls, i, outd, name, g) ==
    IF IsRaise(g.val) THEN g
    ELSE SchemaSerializeValue(g.obj, implicit_nulls, i, outd, name,
                              FieldSerialize(Fields(g.obj.v.cls)[name], g.val, implicit_nulls))

\* Schema.serialize, the loop from the i-th field name on
SchemaSerialize(self, implicit_nulls, i, outd) ==
    IF i > Len(FieldNames(self.v.cls)) THEN Ret(PyDict(outd), self)
    ELSE SchemaSerializeRead(implicit_nulls, i, outd, FieldNames(self.v.cls)[i],
                             SchemaGetattr(self, FieldNames(self.v.cls)[i]))

\* GenericSchema._serialize_value, lines 187-188: a nullish item is left out
SerializeItem(items, implicit_nulls, i, acc, ser) ==
    IF IsRaise(ser.val) THEN Ret(ser.val, PyList([items EXCEPT ![i] = ser.obj]))
    ELSE SerializeItems([items EXCEPT ![i] = ser.obj], implicit_nulls, i + 1,
                        IF nullish(ser.val, implicit_nulls).val = PyBool(TRUE) THEN acc
                        ELSE Append(acc, ser.val))

\* GenericSchema._serialize_value, lines 181-190: the loop from the i-th item on
SerializeItems(items, implicit_nulls, i, acc) ==
    IF i > Len(items) THEN Ret(PyList(acc), PyList(items))
    ELSE SerializeItem(items, implicit_nulls, i, acc, SerializeValue(items[i], implicit_nulls))

\* GenericSchema._serialize_value, lines 192-195
SerializeValueEnd(implicit_nulls, l) ==
    IF ~IsRaise(l.val) /\ implicit_nulls /\ nullish(l.val, implicit_nulls).val = PyBool(TRUE)
    THEN Ret(PyNone, l.obj)
    ELSE l

\* GenericSchema._serialize_value, lines 181-190
SerializeValueList(implicit_nulls, s) ==
    IF s.val.k = "list"
    THEN SerializeValueEnd(implicit_nulls, SerializeItems(s.val.v, implicit_nulls, 1, <<>>))
    ELSE SerializeValueEnd(implicit_nulls, s)

\* GenericSchema._serialize_value
SerializeValueBody(value, implicit_nulls) ==
    SerializeValueList(implicit_nulls, SerializeIfSchema(value, implicit_nulls))

\* GenericSchema.serialize, lines 210-214
GenericSerializeAttr(self, implicit_nulls, keys, outd, sv) ==
    IF IsRaise(sv.val) THEN Ret(sv.val, [self EXCEPT !.v[Head(keys)] = sv.obj])
    ELSE GenericSerialize([self EXCEPT !.v[Head(keys)] = sv.obj], implicit_nulls, Tail(keys),
                          IF implicit_nulls /\ nullish(sv.val, implicit_nulls).val = PyBool(TRUE)
                          THEN outd ELSE Put(outd, Head(keys), sv.val))

\* GenericSchema.serialize, the loop over the attributes still to visit
GenericSerialize(self, implicit_nulls, keys, outd) ==
    IF keys = <<>> THEN Ret(PyDict(outd), self)
    ELSE GenericSerializeAttr(self, implicit_nulls, keys, outd,
                              SerializeValue(self.v[Head(keys)], implicit_nulls))

\* Schema.serialize or GenericSchema.serialize, by the class of self
SerializeBody(self, implicit_nulls) ==
    IF self.k = "inst" THEN SchemaSerialize(self, implicit_nulls, 1, EmptyDict)
    ELSE GenericSerialize(self, implicit_nulls, SetToSeq(DOMAIN self.v), EmptyDict)

----------------------------------------------------------------------------
(* validate *)

\* SimpleTypeField.validate returning what _valid returns
SimpleTypeValidateNoRaise(field, value, kinds) ==
    IF field.required /\ value = PyNone THEN Raise("Invalid")
    ELSE PyBool((value = PyNone /\ ~field.required) \/ value.k \in kinds)

\* Field.validate followed by SimpleTypeField._valid, kinds being the kinds
\* of value isinstance(value, field_type) accepts
SimpleTypeValidate(field, value, kinds) ==
    IF field.required /\ value = PyNone THEN Raise("Invalid")
    ELSE IF (value = PyNone /\ ~field.required) \/ value.k \in kinds THEN PyBool(TRUE)
    ELSE Raise("Invalid")

\* UnicodeField.validate, line 250, on the coerced value
UnicodeValidateCoerced(field, coerced) ==
    IF IsRaise(coerced) THEN coerced ELSE SimpleTypeValidate(field, coerced, {"str"})

\* UnicodeField.validate
UnicodeValidate(field, value) ==
    IF field.strict \/ (value = PyNone /\ ~field.required)
    THEN SimpleTypeValidate(field, value, {"str"})
    ELSE UnicodeValidateCoerced(field, UnicodeCoerce(value))

\* Subschema.validate, lines 161-165: a value without validate is first
\* constructed into the nested class (and that instance then dropped)
SubschemaNested(field, value) ==
    IF IsSchema(value) THEN validate(value)
    ELSE Ret(validate(SchemaInit(field.subschema_class, <<value>>, EmptyDict)).val, value)

\* Subschema.validate, lines 155-159, for a field that is not required
SubschemaOptional(field, nl) ==
    IF nl.val = PyBool(FALSE) THEN SubschemaNested(field, nl.obj) ELSE nl

\* Subschema.validate
SubschemaValidate(field, value) ==
    IF field.required /\ value = PyNone THEN Ret(Raise("Invalid"), value)
    ELSE IF field.required THEN SubschemaNested(field, value)
    ELSE SubschemaOptional(field, nullish(value, TRUE))

\* ArrayField.validate, lines 372-373: the verdict on an array_type instance
ArrayItemValidated(items, r) == Ret(r.val, PyList([items.v EXCEPT ![1] = r.obj]))

\* ArrayField.validate, lines 370-379: the loop returns at its first item
ArrayValidateItem(field, items, val) ==
    IF val.k = "inst" /\ val.v.cls = field.array_type THEN ArrayItemValidated(items, validate(val))
    ELSE IF IsSchema(val) THEN Ret(Raise("Invalid"), items)
    ELSE Ret(validate(SchemaInit(field.array_type, <<val>>, EmptyDict)).val, items)

\* ArrayField.validate, lines 366-386, once SimpleTypeField.validate passed
ArrayValidateItems(field, items) ==
    IF ~field.required /\ items \in {PyNone, PyList(<<>>)} THEN Ret(PyBool(TRUE), items)
    ELSE IF field.array_type = "" THEN Ret(Raise("TypeError"), items)
    ELSE IF field.array_type \in SchemaClasses
         THEN IF items.v = <<>> THEN Ret(PyBool(TRUE), items)
              ELSE ArrayValidateItem(field, items, items.v[1])
         ELSE IF \E i \in DOMAIN items.v : items.v[i].k \notin {"int", "bool"}
              THEN Ret(Raise("Invalid"), items)
              ELSE Ret(PyBool(TRUE), items)

\* ArrayField.validate
ArrayValidate(field, items) ==
    IF IsRaise(SimpleTypeValidate(field, items, {"list"}))
    THEN Ret(Raise("Invalid"), items)
    ELSE ArrayValidateItems(field, items)

\* field.validate(value); isinstance(value, int) accepts a bool
FieldValidate(field, value) ==
    CASE field.type = "IntegerField" -> Ret(SimpleTypeValidate(field, value, {"int", "bool"}), value)
      [] field.type = "BooleanField" -> Ret(SimpleTypeValidate(field, value, {"bool"}), value)
      [] field.type = "NumberField" -> Ret(SimpleTypeValidate(field, value, {"float"}), value)
      [] field.type \in {"UnicodeField", "IsoDateString"} -> Ret(UnicodeValidate(field, value), value)
      [] field.type = "Subschema" -> SubschemaValidate(field, value)
      [] field.type = "ArrayField" -> ArrayValidate(field, value)
      [] OTHER -> Ret(IF field.required /\ value = PyNone THEN Raise("Invalid") ELSE PyBool(TRUE), value)

\* Schema.validate, line 136: v.validate(...) of one field
SchemaValidateField(self, keys, fv) ==
    IF IsRaise(fv.val) THEN Ret(fv.val, SetDict(self, Head(keys), fv.obj))
    ELSE SchemaValidate(SetDict(self, Head(keys), fv.obj), Tail(keys))

\* Schema.validate, line 136: getattr(self, k)
SchemaValidateRead(keys, g) ==
    IF IsRaise(g.val) THEN g
    ELSE SchemaValidateField(g.obj, keys, FieldValidate(Fields(g.obj.v.cls)[Head(keys)], g.val))

\* Schema.validate: every field validates its value, in the order of _fields
SchemaValidate(self, keys) ==
    IF keys = <<>> THEN Ret(PyBool(TRUE), self)
    ELSE SchemaValidateRead(keys, SchemaGetattr(self, Head(keys)))

\* Schema.validate, or GenericSchema.validate (which returns True)
ValidateBody(self) ==
    IF self.k = "inst" THEN SchemaValidate(self, FieldKeys(self.v.cls)) ELSE Ret(PyBool(TRUE), self)

----------------------------------------------------------------------------
(* _raw *)

RECURSIVE RawItems(_, _, _)
RECURSIVE SchemaRaw(_, _, _)
RECURSIVE GenericRaw(_, _, _)

\* _get_raw_value, line 38: result.append(_get_raw_value(i))
RawItem(items, i, acc, r) ==
    IF IsRaise(r.val) THEN Ret(r.val, PyList([items EXCEPT ![i] = r.obj]))
    ELSE RawItems([items EXCEPT ![i] = r.obj], i + 1, Append(acc, r.val))

\* _get_raw_value, lines 35-39: the loop from the i-th item on
RawItems(items, i, acc) ==
    IF i > Len(items) THEN Ret(PyList(acc), PyList(items))
    ELSE RawItem(items, i, acc, GetRawValue(items[i]))

\* _get_raw_value
GetRawValueBody(value) ==
    IF IsSchema(value) THEN Raw(value)
    ELSE IF value.k = "list" THEN RawItems(value.v, 1, <<>>)
    ELSE Ret(value, value)

\* Schema._raw, line 151: out[name] = _get_raw_value(value)
SchemaRawStore(self, i, outd, name, r) ==
    IF IsRaise(r.val) THEN Ret(r.val, SetDict(self, name, r.obj))
    ELSE SchemaRaw(SetDict(self, name, r.obj), i + 1, Put(outd, name, r.val))

\* Schema._raw, line 150: value = getattr(self, name)
SchemaRawRead(i, outd, name, g) ==
    IF IsRaise(g.val) THEN g ELSE SchemaRawStore(g.obj, i, outd, name, GetRawValue(g.val))

\* Schema._raw, the loop from the i-th field name on, then GenericSchema(**out)
SchemaRaw(self, i, outd) ==
    IF i > Len(FieldNames(self.v.cls)) THEN Ret(GenericSchema(outd), self)
    ELSE SchemaRawRead(i, outd, FieldNames(self.v.cls)[i],
                       SchemaGetattr(self, FieldNames(self.v.cls)[i]))

\* GenericSchema._raw, line 233: out[key] = _get_raw_value(val)
GenericRawStore(self, keys, outd, r) ==
    IF IsRaise(r.val) THEN Ret(r.val, [self EXCEPT !.v[Head(keys)] = r.obj])
    ELSE GenericRaw([self EXCEPT !.v[Head(keys)] = r.obj], Tail(keys), Put(outd, Head(keys), r.val))

\* GenericSchema._raw, the loop over the attributes still to visit
GenericRaw(self, keys, outd) ==
    IF keys = <<>> THEN Ret(GenericSchema(outd), self)
    ELSE GenericRawStore(self, keys, outd, GetRawValue(self.v[Head(keys)]))

\* Schema._raw (out starts as a copy of _raw_input) or GenericSchema._raw
RawBody(self) ==
    IF self.k = "inst" THEN SchemaRaw(self, 1, self.v.raw)
    ELSE GenericRaw(self, SetToSeq(DOMAIN self.v), self.v)

\* the dispatch of a recursive call to the operation it names
Call(fn, a, b, c) ==
    CASE fn = "Schema.__init__" -> SchemaInitBody(a, b, c)
      [] fn = "is_empty" -> IsEmptyBody(a)
      [] fn = "serialize" -> SerializeBody(a, b)
      [] fn = "_serialize_value" -> SerializeValueBody(a, b)
      [] fn = "validate" -> ValidateBody(a)
      [] fn = "_raw" -> RawBody(a)
      [] fn = "_get_raw_value" -> GetRawValueBody(a)

----------------------------------------------------------------------------
(* Transformations.  A node is a record: its class t, the names of a Get's  *)
(* path, its required keyword, its argument nodes, a Const's value, and an *)
(* All's strict keyword.                                                   *)

(* A Many's subtransformation class and a (Many)Submap's mapping class are  *)
(* named by sub.                                                           *)

Node(t) ==
    [t |-> t, path |-> <<>>, required |-> FALSE, args |-> <<>>, value |-> PyNone, strict |-> FALSE,
     sub |-> ""]

\* All(strict=strict)
All(strict) == [Node("All") EXCEPT !.strict = strict]

\* Many(subtrans, *args) with a node class as subtrans
Many(subtrans, args) == [Node("Many") EXCEPT !.sub = subtrans, !.args = args]

\* a node instance held as a value
NodeInstance(node) == [k |-> "node", v |-> node]

\* Many(subtrans, *args) with a node instance as subtrans (held in value)
ManyOver(subnode, args) == [Node("Many") EXCEPT !.value = NodeInstance(subnode), !.args = args]

\* ManySubmap(submapping_class, *args)
ManySubmap(submapping_class, args) == [Node("ManySubmap") EXCEPT !.sub = submapping_class, !.args = args]

\* Submapping(submapping_class, *args)
Submapping(submapping_class, args) == [Node("Submapping") EXCEPT !.sub = submapping_class, !.args = args]

\* Get(*path, required=required)
Get(path, required) == [Node("Get") EXCEPT !.path = path, !.required = required]

\* Const(value)
Const(value) == [Node("Const") EXCEPT !.value = value]

\* Int(arg, required=required); Int is taken by the set of integers
IntNode(arg, required) == [Node("Int") EXCEPT !.args = <<arg>>, !.required = required]

\* Int, Num, Str or Bool (arg, required=required)
CoerceNode(t, arg, required) == [Node(t) EXCEPT !.args = <<arg>>, !.required = required]

\* the exception Get._get raises in place of KeyError and AttributeError
MissingIfRequired(required) == IF required THEN Raise("Missing") ELSE PyNone

\* Get._get_from_obj on a Schema instance: getattr(source, path[, None])
GetFromSchema(required, found) ==
    IF found.val = Raise("AttributeError") THEN Ret(MissingIfRequired(required), found.obj) ELSE found

\* type(value), what the attribute __class__ of every object is
TypeOf(value) == [k |-> "type", v |-> IF value.k = "inst" THEN value.v.cls ELSE value.k]

\* Get._get: one name looked up on the source, by source.get(path) on a dict
\* and by getattr(source, path[, None]) on anything else, None included
GetOne(required, source, name) ==
    CASE source.k = "dict" ->
            Ret(IF name \in DOMAIN source.v THEN source.v[name] ELSE MissingIfRequired(required), source)
      [] source.k # "dict" /\ name = "__class__" -> Ret(TypeOf(source), source)
      [] source.k = "obj" /\ name # "__class__" ->
            Ret(IF name \in DOMAIN source.v THEN source.v[name] ELSE MissingIfRequired(required), source)
      [] source.k = "inst" /\ name # "__class__" -> GetFromSchema(required, SchemaGetattr(source, name))
      [] source.k = "generic" /\ name # "__class__" -> GenericGetattr(source, name)
      [] OTHER -> Ret(MissingIfRequired(required), source)

\* the source with what a lookup below one of its names left there
SetItem(source, name, value) ==
    CASE source.k = "inst" /\ name \in DOMAIN source.v.d -> SetDict(source, name, value)
      [] source.k \in {"dict", "obj", "generic"} /\ name \in DOMAIN source.v ->
            [source EXCEPT !.v[name] = value]
      [] OTHER -> source

RECURSIVE GetPath(_, _, _)

\* Get.function, lines 131-133: the rest of the path is followed into what was got
GetRest(required, path, got) ==
    IF IsRaise(got.val) \/ Len(path) = 1 THEN got
    ELSE Ret(GetPath(required, got.val, Tail(path)).val,
             SetItem(got.obj, Head(path), GetPath(required, got.val, Tail(path)).obj))

\* Get.function
GetPath(required, source, path) == GetRest(required, path, GetOne(required, source, Head(path)))

\* the decimal texts of the ints 0..9, and of the floats 0.0..4.5 by halves
IntTexts == <<"0", "1", "2", "3", "4", "5", "6", "7", "8", "9">>

FloatTexts == <<"0.0", "0.5", "1.0", "1.5", "2.0", "2.5", "3.0", "3.5", "4.0", "4.5">>

\* the position of a text in a table of texts, 0 when it is not there
IndexIn(texts, text) ==
    IF \E i \in DOMAIN texts : texts[i] = text THEN CHOOSE i \in DOMAIN texts : texts[i] = text ELSE 0

TextAt(texts, i) == IF i \in DOMAIN texts THEN texts[i] ELSE "?"

\* int(text)
IntOfText(text) ==
    IF IndexIn(IntTexts, text) > 0 THEN PyInt(IndexIn(IntTexts, text) - 1) ELSE Raise("ValueError")

\* int(value)
IntOf(value) ==
    CASE value.k = "int" -> value
      [] value.k = "bool" -> PyInt(IF value.v THEN 1 ELSE 0)
      [] value.k = "float" -> PyInt(value.v \div 2)
      [] value.k = "str" -> IntOfText(value.v)
      [] value.k = "bytes" -> Raise("ValueError")
      [] OTHER -> Raise("TypeError")

\* float(value)
FloatOf(value) ==
    CASE value.k = "float" -> value
      [] value.k = "int" -> PyFloat(2 * value.v)
      [] value.k = "bool" -> PyFloat(IF value.v THEN 2 ELSE 0)
      [] value.k = "str" ->
            IF IndexIn(IntTexts, value.v) > 0 THEN PyFloat(2 * (IndexIn(IntTexts, value.v) - 1))
            ELSE IF IndexIn(FloatTexts, value.v) > 0 THEN PyFloat(IndexIn(FloatTexts, value.v) - 1)
            ELSE Raise("ValueError")
      [] value.k = "bytes" -> Raise("ValueError")
      [] OTHER -> Raise("TypeError")

\* str(value), for the scalars and the empty containers
StrOf(value) ==
    CASE value.k = "str" -> value
      [] value.k = "none" -> PyStr("None")
      [] value.k = "bool" -> PyStr(IF value.v THEN "True" ELSE "False")
      [] value.k = "int" -> PyStr(TextAt(IntTexts, value.v + 1))
      [] value.k = "float" -> PyStr(TextAt(FloatTexts, value.v + 1))
      [] value.k = "list" /\ value.v = <<>> -> PyStr("[]")
      [] value.k = "dict" /\ value.v = EmptyDict -> PyStr("{}")
      [] OTHER -> PyStr("?")

\* bool(value)
BoolOf(value) ==
    CASE value.k = "none" -> PyBool(FALSE)
      [] value.k = "bool" -> value
      [] value.k \in {"int", "float"} -> PyBool(value.v # 0)
      [] value.k \in {"str", "bytes"} -> PyBool(value.v # "")
      [] value.k = "list" -> PyBool(value.v # <<>>)
      [] value.k = "dict" -> PyBool(value.v # EmptyDict)
      [] OTHER -> PyBool(TRUE)

\* self.target_type(value) of the node classes Int, Num, Str and Bool
TargetType(t, value) ==
    CASE t = "Int" -> IntOf(value)
      [] t = "Num" -> FloatOf(value)
      [] t = "Str" -> StrOf(value)
      [] t = "Bool" -> BoolOf(value)

\* self.null_types: (None, "") for Str, (None,) for the others
NullTypes(t) == IF t = "Str" THEN {PyNone, PyStr("")} ELSE {PyNone}

\* a CoerceType.function that passes every falsy value through
CoerceTypeFalsy(t, required, arg) ==
    IF IsRaise(arg.val) THEN arg
    ELSE IF ~required /\ BoolOf(arg.val) = PyBool(FALSE) THEN arg
    ELSE Ret(TargetType(t, arg.val), arg.obj)

\* CoerceType.function, on the evaluated argument
CoerceType(t, required, arg) ==
    IF IsRaise(arg.val) THEN arg
    ELSE IF ~required /\ arg.val \in NullTypes(t) THEN arg
    ELSE Ret(TargetType(t, arg.val), arg.obj)

\* CoerceType.function with target_type int and null_types (None,)
CoerceInt(required, arg) == CoerceType("Int", required, arg)

\* All.function, line 71: hasattr(source, '_raw') evaluates the property and
\* takes an AttributeError raised inside it for a missing attribute
AllRaw(r) == IF r.val = Raise("AttributeError") THEN Ret(r.obj, r.obj) ELSE r

\* All.function
AllFunction(strict, source) ==
    IF ~strict /\ IsSchema(source) THEN AllRaw(Raw(source)) ELSE Ret(source, source)

RECURSIVE Eval(_, _)
RECURSIVE MappingApply(_, _, _)
RECURSIVE CallArgs(_, _, _)
RECURSIVE ManyLoop(_, _, _)
RECURSIVE ManySubmapLoop(_, _, _)

\* Transformation.__call__, line 160: call_args.append(arg(source))
CallArg(args, acc, r) ==
    IF IsRaise(r.val) THEN r ELSE CallArgs(Tail(args), r.obj, Append(acc, r.val))

\* Transformation.__call__, lines 156-160: the argument nodes still to call
CallArgs(args, source, acc) ==
    IF args = <<>> THEN Ret(PyList(acc), source) ELSE CallArg(args, acc, Eval(Head(args), source))

\* _many_items, lines 188-198
ManyItemsOf(call_args) ==
    IF Len(call_args) > 1 THEN call_args
    ELSE IF Len(call_args) = 1 /\ call_args[1].k = "list" THEN call_args[1].v
    ELSE IF Len(call_args) = 1 THEN <<call_args[1]>>
    ELSE <<>>

\* _many_items with drop_nones false
ManyItemsKeepNones(call_args) == ManyItemsOf(call_args)

\* _many_items(call_args)
ManyItems(call_args) == ManyItemsOf(SelectSeq(call_args, LAMBDA i : i # PyNone))

\* Submapping(item)(), lines 171-177: the item is taken for the mapping
\* class and called; what a callable item makes has no apply
SubmappingOfItem(item) ==
    IF item.k = "callable" THEN Raise("AttributeError") ELSE Raise("TypeError")

\* subtrans(item)(), subtrans being the class Int or the class Submapping
Subtrans(subtrans, item) ==
    IF subtrans = "Submapping" THEN SubmappingOfItem(item) ELSE CoerceInt(FALSE, Ret(item, item)).val

\* Many.function, lines 232-233: the list over the items still to visit
ManyItem(subtrans, items, acc, val) ==
    IF IsRaise(val) THEN val ELSE ManyLoop(subtrans, Tail(items), Append(acc, val))

ManyLoop(subtrans, items, acc) ==
    IF items = <<>> THEN PyList(acc) ELSE ManyItem(subtrans, items, acc, Subtrans(subtrans, Head(items)))

\* Many.function, line 229: isinstance(self.subtrans, Submapping)
IsSubmappingInstance(subtrans) == subtrans.k = "node" /\ subtrans.v.t \in {"Submapping", "ManySubmap"}

\* Many.function on the evaluated arguments
ManyFunction(node, call_args) ==
    IF IsRaise(call_args.val) THEN call_args
    ELSE IF IsSubmappingInstance(node.value) THEN Ret(Raise("ValueError"), call_args.obj)
    ELSE Ret(ManyLoop(node.sub, ManyItems(call_args.val.v), <<>>), call_args.obj)

\* ManySubmap.function, lines 208-209: the list over the items still to visit
ManySubmapItem(submapping_class, items, acc, val) ==
    IF IsRaise(val) THEN val ELSE ManySubmapLoop(submapping_class, Tail(items), Append(acc, val))

ManySubmapLoop(submapping_class, items, acc) ==
    IF items = <<>> THEN PyList(acc)
    ELSE ManySubmapItem(submapping_class, items, acc,
                        MappingApply(submapping_class, Head(items), EmptyDict).val)

\* ManySubmap.function on the evaluated arguments
ManySubmapFunction(submapping_class, call_args) ==
    IF IsRaise(call_args.val) THEN call_args
    ELSE Ret(ManySubmapLoop(submapping_class, ManyItems(call_args.val.v), <<>>), call_args.obj)

\* Submapping.function on the evaluated arguments: call_args[0] is mapped
SubmappingFunction(submapping_class, call_args) ==
    IF IsRaise(call_args.val) THEN call_args
    ELSE IF call_args.val.v = <<>> THEN Ret(Raise("IndexError"), call_args.obj)
    ELSE Ret(MappingApply(submapping_class, call_args.val.v[1], EmptyDict).val, call_args.obj)

\* node(source): Get.__call__, or Transformation.__call__ evaluating the
\* argument nodes against the source and handing them to function
Eval(node, source) ==
    CASE node.t = "Get" -> GetPath(node.required, source, node.path)
      [] node.t = "Const" -> Ret(node.value, source)
      [] node.t = "Int" -> CoerceInt(node.required, Eval(node.args[1], source))
      [] node.t \in {"Num", "Str", "Bool"} ->
            CoerceType(node.t, node.required, Eval(node.args[1], source))
      [] node.t = "All" -> AllFunction(node.strict, source)
      [] node.t = "Many" -> ManyFunction(node, CallArgs(node.args, source, <<>>))
      [] node.t = "ManySubmap" -> ManySubmapFunction(node.sub, CallArgs(node.args, source, <<>>))
      [] node.t = "Submapping" -> SubmappingFunction(node.sub, CallArgs(node.args, source, <<>>))

----------------------------------------------------------------------------
(* Mappings.  A mapping class is declared by its base class ("" for        *)
(* Mapping itself), the source_schema and target_schema its body sets      *)
(* ("inherit" when the body sets none) and the nodes of its body.          *)

\* class m(Mapping) with the schemas its body sets ("" for None)
MappingClass(source_schema, target_schema, body) ==
    [base |-> "", source_schema |-> source_schema, target_schema |-> target_schema, body |-> body]

\* wow = Get('something')
InnerBody == [wow |-> Get(<<"something">>, FALSE)]

\* inner = Submapping(submapping_class, Get("inner"))
OuterBody(submapping_class) == [inner |-> Submapping(submapping_class, <<Get(<<"inner">>, FALSE)>>)]

MappingDecl ==
    [Hm |-> [base |-> "", source_schema |-> "", target_schema |-> "",
             body |-> [wow |-> IntNode(Get(<<"wow">>, FALSE), FALSE)]],
     MappingA |-> [base |-> "", source_schema |-> "FirstSchema", target_schema |-> "",
                   body |-> [bad |-> Get(<<"umm">>, FALSE)]],
     Mymap |-> [base |-> "MappingA", source_schema |-> "inherit", target_schema |-> "OtherSchema",
                body |-> [cool |-> Get(<<"wow">>, FALSE)]],
     Loose |-> [base |-> "", source_schema |-> "", target_schema |-> "OtherSchema",
                body |-> [cool |-> Get(<<"wow">>, FALSE), extra |-> Const(PyInt(1))]],
     InnerNoschema |-> MappingClass("", "", InnerBody),
     InnerSource |-> MappingClass("SourceSub", "", InnerBody),
     InnerTarget |-> MappingClass("", "TargetSub", InnerBody),
     Inner |-> MappingClass("SourceSub", "TargetSub", InnerBody),
     OuterNoschema |-> MappingClass("", "", OuterBody("InnerNoschema")),
     OuterNoschemaOverInnerSource |-> MappingClass("", "", OuterBody("InnerSource")),
     OuterNoschemaOverInnerTarget |-> MappingClass("", "", OuterBody("InnerTarget")),
     OuterNoschemaOverInner |-> MappingClass("", "", OuterBody("Inner")),
     OuterSourceOverInnerNoschema |-> MappingClass("Source", "", OuterBody("InnerNoschema")),
     OuterSourceOverInnerSource |-> MappingClass("Source", "", OuterBody("InnerSource")),
     OuterSourceOverInnerTarget |-> MappingClass("Source", "", OuterBody("InnerTarget")),
     OuterSourceOverInner |-> MappingClass("Source", "", OuterBody("Inner")),
     OuterTargetOverInnerNoschema |-> MappingClass("", "Target", OuterBody("InnerNoschema")),
     OuterTargetOverInnerSource |-> MappingClass("", "Target", OuterBody("InnerSource")),
     OuterTargetOverInnerTarget |-> MappingClass("", "Target", OuterBody("InnerTarget")),
     OuterTargetOverInner |-> MappingClass("", "Target", OuterBody("Inner")),
     OuterOverInnerNoschema |-> MappingClass("Source", "Target", OuterBody("InnerNoschema")),
     OuterOverInnerSource |-> MappingClass("Source", "Target", OuterBody("InnerSource")),
     OuterOverInnerTarget |-> MappingClass("Source", "Target", OuterBody("InnerTarget")),
     Outer |-> MappingClass("Source", "Target", OuterBody("Inner"))]

\* the mapping classes applied to blobs of every kind
MappingClasses == {"Hm", "MappingA", "Mymap", "Loose"}

\* the outer mapping classes: each declares its schemas or not, over an
\* inner mapping class that declares its schemas or not
OuterClasses ==
    {"OuterNoschema", "OuterNoschemaOverInnerSource", "OuterNoschemaOverInnerTarget",
     "OuterNoschemaOverInner", "OuterSourceOverInnerNoschema", "OuterSourceOverInnerSource",
     "OuterSourceOverInnerTarget", "OuterSourceOverInner", "OuterTargetOverInnerNoschema",
     "OuterTargetOverInnerSource", "OuterTargetOverInnerTarget", "OuterTargetOverInner",
     "OuterOverInnerNoschema", "OuterOverInnerSource", "OuterOverInnerTarget", "Outer"}

RECURSIVE SourceSchema(_)
\* self.source_schema: the nearest class of the MRO that sets it, else None
SourceSchema(m) ==
    IF m = "" THEN ""
    ELSE IF MappingDecl[m].source_schema = "inherit" THEN SourceSchema(MappingDecl[m].base)
    ELSE MappingDecl[m].source_schema

RECURSIVE TargetSchema(_)
\* self.target_schema: the nearest class of the MRO that sets it, else None
TargetSchema(m) ==
    IF m = "" THEN ""
    ELSE IF MappingDecl[m].target_schema = "inherit" THEN TargetSchema(MappingDecl[m].base)
    ELSE MappingDecl[m].target_schema

RECURSIVE MappingFields(_)
\* HasFieldsMeta.__new__ on a mapping class: _fields, every transformation
\* attribute dir(new_class) lists, the class's own hiding its bases'
MappingFields(m) ==
    IF m = "" THEN EmptyDict ELSE Merge(MappingFields(MappingDecl[m].base), MappingDecl[m].body)

\* the transformation names the mapping classes use, as sorted() orders them
SortedNames == <<"bad", "cool", "extra", "inner", "wow">>

\* the names of a set in sorted order, as dir() lists them
SortedSeq(S) == SelectSeq(SortedNames, LAMBDA n : n \in S)

\* self._fields.keys() of a mapping
MappingFieldNames(m) == SortedSeq(DOMAIN MappingFields(m))

\* bool(blob) is False
Falsy(blob) ==
    blob \in {PyNone, PyDict(EmptyDict), PyList(<<>>), PyBool(FALSE), PyInt(0), PyStr("")}

\* Mapping.apply, lines 281-286, without the "or {}" of line 286
LoadSourceNoDefault(m, blob) ==
    IF SourceSchema(m) = "" THEN blob
    ELSE IF blob.k = "inst" /\ blob.v.cls = SourceSchema(m) THEN blob
    ELSE IF blob.k = "dict" THEN SchemaInit(SourceSchema(m), <<>>, blob.v)
    ELSE Raise("TypeError")

\* Mapping.apply, lines 281-286
LoadSource(m, blob) ==
    IF SourceSchema(m) = "" THEN blob
    ELSE IF blob.k = "inst" /\ blob.v.cls = SourceSchema(m) THEN blob
    ELSE IF Falsy(blob) THEN SchemaInit(SourceSchema(m), <<>>, EmptyDict)
    ELSE IF blob.k = "dict" THEN SchemaInit(SourceSchema(m), <<>>, blob.v)
    ELSE Raise("TypeError")

RECURSIVE ApplyLoop(_, _, _, _)

\* Mapping.apply storing a result only when it is not None
ApplyStoreUnlessNone(m, names, target_dict, result) ==
    IF IsRaise(result.val) THEN [val |-> result.val, obj |-> result.obj, target_dict |-> target_dict]
    ELSE ApplyLoop(m, result.obj, Tail(names),
                   IF result.val = PyNone THEN target_dict ELSE Put(target_dict, Head(names), result.val))

\* Mapping.apply, line 293: target_dict[attr_name] = result
ApplyStore(m, names, target_dict, result) ==
    IF IsRaise(result.val) THEN [val |-> result.val, obj |-> result.obj, target_dict |-> target_dict]
    ELSE ApplyLoop(m, result.obj, Tail(names), Put(target_dict, Head(names), result.val))

\* Mapping.apply, lines 290-293: each transformation is called on the loaded source
ApplyLoop(m, loaded_source, names, target_dict) ==
    IF names = <<>>
    THEN [val |-> PyDict(target_dict), obj |-> loaded_source, target_dict |-> target_dict]
    ELSE ApplyStore(m, names, target_dict, Eval(MappingFields(m)[Head(names)], loaded_source))

\* target_dict kept from one call to the next (a dict shared by the calls)
TargetDictShared(carried) == carried

\* Mapping.apply, line 289: target_dict = {}, whatever an earlier call left
TargetDictInit(carried) == EmptyDict

\* Mapping.apply, lines 295-298
ApplyResult(m, blob, loaded_source, r) ==
    [val |-> IF IsRaise(r.val) THEN r.val
             ELSE IF TargetSchema(m) = "" THEN GenericSchema(r.val.v)
             ELSE SchemaInit(TargetSchema(m), <<>>, r.val.v),
     obj |-> IF loaded_source = blob THEN r.obj ELSE blob,
     target_dict |-> r.target_dict]

\* Mapping.apply, lines 288-298, on the loaded source
ApplyLoaded(m, blob, loaded_source, carried) ==
    IF IsRaise(loaded_source)
    THEN [val |-> loaded_source, obj |-> blob, target_dict |-> carried]
    ELSE ApplyResult(m, blob, loaded_source,
                     ApplyLoop(m, loaded_source, MappingFieldNames(m), TargetDictInit(carried)))

\* m().apply(blob): the result (or the exception raised), the blob as the
\* call left it, and target_dict as the call left it; carried is what the
\* name target_dict held before the call
MappingApply(m, blob, carried) == ApplyLoaded(m, blob, LoadSource(m, blob), carried)

----------------------------------------------------------------------------
(* Objects with identity.  Where two names may hold the same object (a     *)
(* nested instance made by Schema.__init__, the product of a default       *)
(* factory), objects live in a heap: objs is the sequence of objects made  *)
(* so far, an object's address is its index, and a value stored in an      *)
(* instance __dict__ may be a reference to an address.  assigned holds the *)
(* <<address, name>> pairs of the Subschema fields the caller assigned to. *)

Ref(a) == [k |-> "ref", v |-> a]

NoHeap == [objs |-> <<>>, assigned |-> {}]

\* what an operation on the heap hands back: the objects as it left them and
\* its result
HeapRet(objs, val) == [objs |-> objs, val |-> val]

\* a new object: it is put at the next address, and the reference is the result
Alloc(objs, obj) == HeapRet(Append(objs, obj), Ref(Len(objs) + 1))

RECURSIVE HeapInit(_, _, _)

\* Schema.__init__, line 77: setattr(self, k, <the new nested instance>)
HeapInitSubschemaStore(a, name, nested) ==
    [nested.objs EXCEPT ![a] = SchemaSetattr(@, name, nested.val)]

\* Schema.__init__ storing one nested instance per nested class, made once
HeapInitSubschemaShared(objs, a, name, field) ==
    IF field.type # "Subschema" THEN objs
    ELSE IF \E b \in DOMAIN objs : objs[b].k = "inst" /\ objs[b].v.cls = field.subschema_class
         THEN [objs EXCEPT ![a] = SchemaSetattr(@, name,
                  Ref(CHOOSE b \in DOMAIN objs :
                          objs[b].k = "inst" /\ objs[b].v.cls = field.subschema_class))]
         ELSE HeapInitSubschemaStore(a, name, HeapInit(objs, field.subschema_class, EmptyDict))

\* Schema.__init__, lines 76-77, for one field: v.subschema_class() is a new object
HeapInitSubschema(objs, a, name, field) ==
    IF field.type = "Subschema"
    THEN HeapInitSubschemaStore(a, name, HeapInit(objs, field.subschema_class, EmptyDict))
    ELSE objs

RECURSIVE HeapInitSubschemas(_, _, _)
\* Schema.__init__, lines 75-77
HeapInitSubschemas(objs, a, names) ==
    IF names = <<>> THEN objs
    ELSE HeapInitSubschemas(
             HeapInitSubschema(objs, a, Head(names), Fields(objs[a].v.cls)[Head(names)]),
             a, Tail(names))

\* Schema.__init__, lines 80-85, on the instance at address a
HeapInitKwargs(objs, a, kwargs) ==
    HeapRet([objs EXCEPT ![a] = InitKwargs(@, SetToSeq(DOMAIN kwargs), kwargs)], Ref(a))

\* Schema.__init__, lines 75-85, on the instance at address a
HeapInitAt(objs, a, kwargs) ==
    HeapInitKwargs(HeapInitSubschemas(objs, a, FieldKeys(objs[a].v.cls)), a, kwargs)

\* cls(**kwargs): a new instance, then Schema.__init__ on it
HeapInit(objs, cls, kwargs) ==
    HeapInitAt(Append(objs, Instance(cls, EmptyDict, kwargs)), Len(objs) + 1, kwargs)

\* a value that has identity and can be changed in place
Mutable(value) == value.k \in {"dict", "list"}

\* Field.default on the heap with one object handed out by every call
HeapDefaultShared(objs, field) ==
    IF field.default.k = "callable" /\ Mutable(field.default.v)
    THEN IF \E a \in DOMAIN objs : Mutable(objs[a])
         THEN HeapRet(objs, Ref(CHOOSE a \in DOMAIN objs : Mutable(objs[a])))
         ELSE Alloc(objs, field.default.v)
    ELSE HeapRet(objs, default(field))

\* Field.default, lines 101-103: a callable default is called, and what the
\* call returns is a new object
HeapDefault(objs, field) ==
    IF field.default.k = "callable" /\ Mutable(field.default.v)
    THEN Alloc(objs, field.default.v)
    ELSE HeapRet(objs, default(field))

\* Field.__get__, lines 69-71: the default is stored in the instance and returned
HeapFieldGetDefault(a, field, dflt) ==
    HeapRet([dflt.objs EXCEPT ![a] = SetDict(@, field_name(field), dflt.val)], dflt.val)

\* Field.__get__, lines 66-71
HeapFieldGetStored(objs, a, field, value) ==
    IF value # PyNone THEN HeapRet(objs, value)
    ELSE HeapFieldGetDefault(a, field, HeapDefault(objs, field))

\* Field.__get__ on the instance at address a
HeapFieldGet(objs, a, field) ==
    HeapFieldGetStored(objs, a, field, DictGet(objs[a].v.d, field_name(field)))

\* object.__getattribute__ on the instance at address a
HeapObjectGetattribute(objs, a, name) ==
    IF HasDescriptor(objs[a].v.cls, name)
    THEN HeapFieldGet(objs, a, Descriptor(objs[a].v.cls, name))
    ELSE IF name \in DOMAIN objs[a].v.d
         THEN HeapRet(objs, objs[a].v.d[name])
         ELSE HeapRet(objs, Raise("AttributeError"))

\* Schema.__getattr__, called when normal lookup raised AttributeError
HeapGetattrFallback(objs, a, name, found) ==
    IF IsRaise(found.val) THEN HeapObjectGetattribute(objs, a, dedunder(name)) ELSE found

\* getattr(x, name), x being the instance at address a
HeapGetattr(objs, a, name) ==
    HeapGetattrFallback(objs, a, name, HeapObjectGetattribute(objs, a, name))

\* setattr(x, name, value), x being the instance at address a
HeapSetattr(objs, a, name, value) == [objs EXCEPT ![a] = SchemaSetattr(@, name, value)]

\* x[key] = value, x being the dict at address a
HeapSetitem(objs, a, key, value) == [objs EXCEPT ![a] = PyDict(Put(@.v, key, value))]

\* the object a value stands for: the one a reference points to, or the value itself
Deref(objs, value) == IF value.k = "ref" THEN objs[value.v] ELSE value

----------------------------------------------------------------------------
(* The inputs the operations are tried on *)

D1(k1, v1) == (k1 :> v1)

D2(k1, v1, k2, v2) == (k1 :> v1 @@ k2 :> v2)

Ints == {PyInt(n) : n \in 0..MaxInt}

\* the field a key of a class addresses, or a field of no type for any other key
FieldFor(cls, key) ==
    IF key \in Range(FieldNames(cls)) THEN Fields(cls)[key]
    ELSE IF InitKey(key) \in Range(FieldNames(cls)) THEN Fields(cls)[InitKey(key)]
    ELSE IF dedunder(key) \in Range(FieldNames(cls)) THEN Fields(cls)[dedunder(key)]
    ELSE Field("", key)

\* the values a caller assigns to a field
PoolOfField(field) ==
    CASE field.type = "UnicodeField" ->
            {PyNone, PyStr(""), PyStr("x"), PyBytes("x"), PyBytes(BadBytes), PyInt(0)}
      [] field.type = "IntegerField" ->
            {PyNone, PyBool(FALSE), PyStr("x")} \cup Ints
      [] field.type = "Subschema" /\ field.subschema_class = "Person" ->
            {PyNone, PyDict(EmptyDict), PyInt(1),
             PyDict(D2("first_name", PyStr("x"), "last_name", PyNone)),
             PyDict(D1("first_name", PyInt(0))),
             GenericSchema(D1("a", PyNone))}
      [] field.type = "Subschema" /\ field.subschema_class = "Conversation" ->
            {PyNone, PyDict(EmptyDict),
             PyDict(D1("numbers", PyList(<<PyNone>>))),
             PyDict(D1("numbers", PyList(<<PyInt(0)>>))),
             PyDict(D1("conversants", PyList(<<PyDict(EmptyDict)>>)))}
      [] field.type = "ArrayField" /\ field.array_type = "int" ->
            {PyNone, PyList(<<>>), PyList(<<PyNone>>), PyList(<<PyInt(0)>>),
             PyList(<<PyNone, PyInt(1)>>), PyBool(FALSE)}
      [] field.type = "ArrayField" /\ field.array_type = "Person" ->
            {PyNone, PyList(<<>>), PyList(<<PyDict(EmptyDict)>>),
             PyList(<<PyDict(D1("first_name", PyStr("x"))), PyNone>>)}
      [] OTHER -> {PyNone, PyInt(1)}

PoolOf(cls, key) == PoolOfField(FieldFor(cls, key))

\* the values a caller constructs an instance with, per field
InitPoolOfField(field) ==
    CASE field.type = "UnicodeField" -> {PyNone, PyStr("x"), PyBytes("x")}
      [] field.type = "IntegerField" -> {PyNone, PyInt(0), PyStr("x")}
      [] field.type = "Subschema" /\ field.subschema_class = "Person" ->
            {PyNone, PyDict(EmptyDict), PyDict(D2("first_name", PyStr("x"), "last_name", PyNone))}
      [] field.type = "Subschema" /\ field.subschema_class = "Conversation" ->
            {PyNone, PyDict(D1("numbers", PyList(<<PyNone>>)))}
      [] field.type = "ArrayField" /\ field.array_type = "int" ->
            {PyNone, PyList(<<PyNone, PyInt(1)>>)}
      [] field.type = "ArrayField" /\ field.array_type = "Person" ->
            {PyNone, PyList(<<PyDict(EmptyDict)>>)}
      [] OTHER -> {PyInt(1)}

InitPoolOf(cls, key) == InitPoolOfField(FieldFor(cls, key))

\* the keys a caller may use on a class: its field names, their escaped
\* spellings, and a name the class does not declare
KeysOf(cls) ==
    Range(FieldNames(cls)) \cup {"zz"}
    \cup (IF cls = "Fancy" THEN {"__if", "_Fancy__if"} ELSE {})

RECURSIVE DictsOver(_, _)
\* every dict over a subset of keys, each key with a value of its pool
DictsOver(cls, keys) ==
    IF keys = {} THEN {EmptyDict}
    ELSE LET key == CHOOSE x \in keys : TRUE
             rest == DictsOver(cls, keys \ {key})
         IN rest \cup {Put(f, key, v) : f \in rest, v \in InitPoolOf(cls, key)}

KwargsOver(cls) == {f \in DictsOver(cls, KeysOf(cls)) : Cardinality(DOMAIN f) <= MaxKwargs}

\* the keys of a positional dict: the field names and a name the class does
\* not declare
ArgKeysOf(cls) == Range(FieldNames(cls)) \cup {"zz"}

ArgsOver(cls) == {<<>>, <<PyNone>>} \cup {<<PyDict(f)>> : f \in DictsOver(cls, ArgKeysOf(cls))}

\* the blobs a mapping is applied to
Blobs ==
    {PyNone, PyDict(EmptyDict), PyDict(D1("wow", PyInt(1))),
     PyDict(D2("umm", PyInt(0), "wow", PyInt(1))),
     SchemaInit("FirstSchema", <<>>, D1("wow", PyInt(1)))}

\* the sources a node is called on: dicts, plain objects, Schema instances,
\* GenericSchema instances, None
Sources ==
    {PyNone, PyDict(EmptyDict), PyDict(D1("a", PyInt(1))), PyDict(D1("a", PyDict(D1("b", PyInt(1))))),
     PyObject(EmptyDict), PyObject(D1("path", PyStr("goal"))),
     SchemaInit("FirstSchema", <<>>, D1("wow", PyInt(1))),
     SchemaInit("DefaultsSchema", <<>>, EmptyDict),
     GenericSchema(EmptyDict), GenericSchema(D1("a", PyInt(1)))}

\* the names a Get follows
Paths ==
    {<<"a">>, <<"wow">>, <<"path">>, <<"defaulted">>, <<"zz">>, <<"a", "b">>, <<"zz", "b">>,
     <<"a", "__class__">>, <<"zz", "__class__">>}

\* the nodes called on a source
Nodes ==
    {Get(path, required) : path \in Paths, required \in BOOLEAN}
        \cup {IntNode(Get(<<"a">>, FALSE), required) : required \in BOOLEAN}
        \cup {Const(PyInt(1))}

----------------------------------------------------------------------------
(* The state machine.  inst is the object the program holds (a schema      *)
(* instance once one is constructed or returned by a mapping), out the     *)
(* record of the last read made of it, fresh whether no attribute was      *)
(* assigned since construction, calls the apply calls made so far, and     *)
(* kept the dict that the name target_dict of Mapping.apply was last bound *)
(* to.                                                                     *)

NoOut == [op |-> "none", arg |-> PyNone, kw |-> EmptyDict, pre |-> PyNone, val |-> PyNone]

Out(op, arg, kw, pre, val) == [op |-> op, arg |-> arg, kw |-> kw, pre |-> pre, val |-> val]

Init ==
    /\ inst = PyNone
    /\ out = NoOut
    /\ fresh = TRUE
    /\ calls = <<>>
    /\ kept = EmptyDict
    /\ heap = NoHeap

\* s = cls(*args, **kwargs)
New(cls, args, kwargs) ==
    /\ inst = PyNone
    /\ calls = <<>>
    /\ inst' = SchemaInit(cls, args, kwargs)
    /\ out' = Out("init", PyList(args), kwargs, PyNone, PyNone)
    /\ fresh' = TRUE
    /\ UNCHANGED <<calls, kept, heap>>

\* s.name = value
SetAttr(name, value) ==
    /\ inst.k = "inst"
    /\ inst' = SchemaSetattr(inst, name, value)
    /\ out' = NoOut
    /\ fresh' = FALSE
    /\ UNCHANGED <<calls, kept, heap>>

\* a read of the instance: the result is recorded, and the instance is left as
\* the read left it (Field.__get__ stores defaults)
Observe(op, arg, r) ==
    /\ inst' = r.obj
    /\ out' = Out(op, arg, EmptyDict, inst, r.val)
    /\ UNCHANGED <<fresh, calls, kept, heap>>

\* s.name
GetAttr(name) ==
    /\ inst.k = "inst"
    /\ Observe("getattr", PyStr(name), SchemaGetattr(inst, name))

\* s.serialize(implicit_nulls=implicit_nulls)
Serialize(implicit_nulls) ==
    /\ IsSchema(inst)
    /\ Observe("serialize", PyBool(implicit_nulls), serialize(inst, implicit_nulls))

\* s.is_empty
IsEmpty ==
    /\ IsSchema(inst)
    /\ Observe("is_empty", PyNone, is_empty(inst))

\* s.validate()
Validate ==
    /\ IsSchema(inst)
    /\ Observe("validate", PyNone, validate(inst))

\* the state after m().apply(blob) returned or raised r
Applied(m, blob, r) ==
    /\ inst' = r.val
    /\ out' = Out("apply", blob, EmptyDict, PyNone, r.val)
    /\ fresh' = TRUE
    /\ calls' = Append(calls, [mapping |-> m, blob |-> blob, val |-> r.val, after |-> r.obj])
    /\ kept' = r.target_dict
    /\ UNCHANGED heap

\* s = m().apply(blob), on a fresh instance of the mapping class m
ApplyMapping(m, blob) ==
    /\ Len(calls) < MaxCalls
    /\ Applied(m, blob, MappingApply(m, blob, kept))

\* the state after node(source) returned or raised r
Called(node, source, r) ==
    /\ inst' = r.obj
    /\ out' = Out(node.t, PyList([i \in DOMAIN node.path |-> PyStr(node.path[i])]),
                  D1("required", PyBool(node.required)), source, r.val)
    /\ UNCHANGED <<fresh, calls, kept, heap>>

\* node(source)
CallNode(node, source) ==
    /\ out = NoOut
    /\ Called(node, source, Eval(node, source))

\* an instance is built empty or returned by a mapping, then assigned to and read
Next ==
    \/ \E cls \in ConstructedClasses : New(cls, <<>>, EmptyDict)
    \/ inst = PyNone /\ \E m \in MappingClasses : \E blob \in Blobs : ApplyMapping(m, blob)
    \/ inst.k = "inst" /\ \E name \in KeysOf(inst.v.cls) : \E value \in PoolOf(inst.v.cls, name) :
           SetAttr(name, value)
    \/ inst.k = "inst" /\ \E name \in KeysOf(inst.v.cls) : GetAttr(name)
    \/ \E implicit_nulls \in BOOLEAN : Serialize(implicit_nulls)
    \/ IsEmpty
    \/ Validate

Spec == Init /\ [][Next]_vars

\* an instance is built from a positional dict and keywords, then read
NextInit ==
    \/ \E cls \in ConstructedClasses : \E args \in ArgsOver(cls) : \E kwargs \in KwargsOver(cls) :
           New(cls, args, kwargs)
    \/ inst.k = "inst" /\ \E name \in KeysOf(inst.v.cls) : GetAttr(name)
    \/ \E implicit_nulls \in BOOLEAN : Serialize(implicit_nulls)
    \/ IsEmpty

SpecInit == Init /\ [][NextInit]_vars

\* mappings are applied one after another, each on a fresh mapping instance
NextMap ==
    \E m \in MappingClasses : \E blob \in Blobs : ApplyMapping(m, blob)

SpecMap == Init /\ [][NextMap]_vars

\* a node is called on a source
NextCall ==
    \E node \in Nodes : \E source \in Sources : CallNode(node, source)

SpecCall == Init /\ [][NextCall]_vars

\* All(strict=strict)(s).serialize(): the dict, and s as the calls left it
AllSerialized(a) ==
    Ret(serialize(a.val, FALSE).val, IF a.val = a.obj THEN serialize(a.val, FALSE).obj ELSE a.obj)

\* All(strict=strict)(s).serialize() on the Schema instance
AllSerialize(strict) ==
    /\ inst.k = "inst"
    /\ Observe("All.serialize", PyBool(strict), AllSerialized(AllFunction(strict, inst)))

\* the sources that are no schema instances
PlainSources == {source \in Sources : ~IsSchema(source)}

\* All(strict=strict)(source) on a source that is no schema instance
AllPlain(strict, source) ==
    /\ out' = Out("All", PyBool(strict), EmptyDict, source, AllFunction(strict, source).val)
    /\ UNCHANGED <<inst, fresh, calls, kept, heap>>

\* an instance is built from keywords, its fields are assigned, and All is
\* called on it and on plain sources
NextAll ==
    \/ \E cls \in ConstructedClasses : \E kwargs \in KwargsOver(cls) : New(cls, <<>>, kwargs)
    \/ inst.k = "inst" /\ \E name \in Range(FieldNames(inst.v.cls)) :
           \E value \in PoolOf(inst.v.cls, name) : SetAttr(name, value)
    \/ \E strict \in BOOLEAN : AllSerialize(strict)
    \/ \E strict \in BOOLEAN : \E source \in PlainSources : AllPlain(strict, source)

SpecAll == Init /\ [][NextAll]_vars

\* the nullish inputs of a sub-mapping, and an input with a value to map
Empties == {PyDict(D1("inner", PyDict(EmptyDict))), PyDict(D1("inner", PyNone)), PyDict(EmptyDict), PyNone}

SubmapBlobs == Empties \cup {PyDict(D1("inner", PyDict(D1("something", PyInt(1)))))}

\* s = m().apply(blob) for an outer mapping class m, the first call made
ApplyOuter(m, blob) ==
    /\ inst = PyNone
    /\ calls = <<>>
    /\ Applied(m, blob, MappingApply(m, blob, kept))

\* an outer mapping is applied and its result serialized
NextSubmap ==
    \/ \E m \in OuterClasses : \E blob \in SubmapBlobs : ApplyOuter(m, blob)
    \/ \E implicit_nulls \in BOOLEAN : Serialize(implicit_nulls)

SpecSubmap == Init /\ [][NextSubmap]_vars

\* the attribute names used on a GenericSchema, and the values given to them
GenericNames == {"foo", "qux", "validate", "is_empty"}

GenericValues ==
    {PyNone, PyInt(1), PyStr(""), PyDict(EmptyDict), PyList(<<>>),
     GenericSchema(EmptyDict), GenericSchema(D1("foo", PyInt(1)))}

GenericKwargs ==
    {f \in UNION {[names -> GenericValues] : names \in SUBSET GenericNames} :
        Cardinality(DOMAIN f) <= MaxKwargs}

\* g = GenericSchema(**kwargs)
NewGeneric(kwargs) ==
    /\ inst = PyNone
    /\ out = NoOut
    /\ inst' = IF IsRaise(GenericInit(kwargs)) THEN PyNone ELSE GenericInit(kwargs)
    /\ out' = Out("init", PyList(<<>>), kwargs, PyNone,
                  IF IsRaise(GenericInit(kwargs)) THEN GenericInit(kwargs) ELSE PyNone)
    /\ UNCHANGED <<fresh, calls, kept, heap>>

\* g.name = value
SetGeneric(name, value) ==
    /\ inst.k = "generic"
    /\ inst' = GenericSetattr(inst, name, value).obj
    /\ out' = Out("setattr", PyStr(name), D1("value", value), inst, GenericSetattr(inst, name, value).val)
    /\ UNCHANGED <<fresh, calls, kept, heap>>

\* g.name
GetGeneric(name) ==
    /\ inst.k = "generic"
    /\ Observe("getattr", PyStr(name), GenericGetattr(inst, name))

\* g.validate()
ValidateGeneric ==
    /\ inst.k = "generic"
    /\ Observe("validate", PyNone, GenericValidate(inst))

\* a GenericSchema is built from keywords, assigned to and read
NextGeneric ==
    \/ \E kwargs \in GenericKwargs : NewGeneric(kwargs)
    \/ \E name \in GenericNames : \E value \in GenericValues : SetGeneric(name, value)
    \/ \E name \in GenericNames : GetGeneric(name)
    \/ ValidateGeneric
    \/ inst.k = "generic" /\ IsEmpty

SpecGeneric == Init /\ [][NextGeneric]_vars

\* the scalar type fields, required or not
ScalarFields ==
    {[Field(type, "f") EXCEPT !.required = required] :
        type \in {"BooleanField", "IntegerField", "NumberField"}, required \in BOOLEAN}

\* values of every kind
AnyValues ==
    {PyNone, PyBool(TRUE), PyBool(FALSE), PyStr("x"), PyStr("1"), PyBytes("x"), PyList(<<>>),
     PyList(<<PyInt(1)>>), PyDict(EmptyDict), PyObject(EmptyDict), GenericSchema(EmptyDict)}
        \cup {PyInt(i) : i \in (0 - MaxInt)..MaxInt} \cup {PyFloat(i) : i \in (0 - MaxInt)..MaxInt}

\* field.validate(value)
ValidateField(field, value) ==
    /\ out' = Out("Field.validate", value,
                  D2("type", PyStr(field.type), "required", PyBool(field.required)),
                  PyNone, FieldValidate(field, value).val)
    /\ UNCHANGED <<inst, fresh, calls, kept, heap>>

NextField ==
    \E field \in ScalarFields : \E value \in AnyValues : ValidateField(field, value)

SpecField == Init /\ [][NextField]_vars

\* the items of the lists an ArrayField validates and serializes: a Person
\* that validates, a Person that does not, an instance of another schema,
\* a dict that validates as a Person, one that does not, an int and None
ArrayItems ==
    {SchemaInit("Person", <<>>, D2("first_name", PyStr("x"), "last_name", PyStr("x"))),
     SchemaInit("Person", <<>>, EmptyDict),
     SchemaInit("Schema1", <<>>, EmptyDict),
     PyDict(D2("first_name", PyStr("x"), "last_name", PyStr("x"))),
     PyDict(EmptyDict), PyInt(1), PyNone}

\* the lists of at most MaxItems items
ArrayLists == UNION {[1..n -> ArrayItems] : n \in 0..MaxItems}

\* ArrayField(array_type, required=required).validate(items)
ValidateArray(array_type, required, items) ==
    /\ out' = Out("ArrayField.validate", items,
                  D2("array_type", PyStr(array_type), "required", PyBool(required)), PyNone,
                  ArrayValidate([ArrayField("f", array_type) EXCEPT !.required = required], items).val)
    /\ UNCHANGED <<inst, fresh, calls, kept, heap>>

NextArray ==
    \E array_type \in {"Person", "int"} : \E required \in BOOLEAN :
        \E items \in {PyNone} \cup {PyList(l) : l \in ArrayLists} :
            ValidateArray(array_type, required, items)

SpecArray == Init /\ [][NextArray]_vars

\* the items of the lists that are serialized: None, a falsy scalar, an
\* empty dict, an empty and a filled nested instance, a list holding None
ListItems ==
    {PyNone, PyInt(0), PyDict(EmptyDict),
     SchemaInit("Person", <<>>, EmptyDict),
     SchemaInit("Person", <<>>, D2("first_name", PyStr("x"), "last_name", PyStr("x"))),
     PyList(<<PyNone>>)}

\* the lists of at most MaxItems of them
Lists == UNION {[1..n -> ListItems] : n \in 0..MaxItems}

\* ArrayField(Person).serialize(items, implicit_nulls=implicit_nulls)
SerializeArray(items, implicit_nulls) ==
    /\ out' = Out("ArrayField.serialize", PyList(items), D1("implicit_nulls", PyBool(implicit_nulls)),
                  PyNone, FieldSerialize(ArrayField("f", "Person"), PyList(items), implicit_nulls).val)
    /\ UNCHANGED <<inst, fresh, calls, kept, heap>>

\* GenericSchema(x=items).serialize(implicit_nulls=implicit_nulls)
SerializeGenericList(items, implicit_nulls) ==
    /\ out' = Out("GenericSchema.serialize", PyList(items), D1("implicit_nulls", PyBool(implicit_nulls)),
                  PyNone, serialize(GenericSchema(D1("x", PyList(items))), implicit_nulls).val)
    /\ UNCHANGED <<inst, fresh, calls, kept, heap>>

NextList ==
    \/ \E items \in Lists : \E implicit_nulls \in BOOLEAN : SerializeArray(items, implicit_nulls)
    \/ \E items \in Lists : \E implicit_nulls \in BOOLEAN : SerializeGenericList(items, implicit_nulls)

SpecList == Init /\ [][NextList]_vars

\* the values a Subschema field of nested class cls validates: None, the
\* empty dict, a value that is no dict, a GenericSchema, and dicts and
\* instances of the class with up to MaxKwargs keywords
SubschemaValues(cls) ==
    {PyNone, PyInt(1), GenericSchema(EmptyDict)}
        \cup {PyDict(kwargs) : kwargs \in KwargsOver(cls)}
        \cup {SchemaInit(cls, <<>>, kwargs) : kwargs \in KwargsOver(cls)}

\* Subschema(cls, required=required).validate(value)
ValidateSubschema(cls, required, value) ==
    /\ out' = Out("Subschema.validate", value, D2("cls", PyStr(cls), "required", PyBool(required)),
                  PyNone, SubschemaValidate([Subschema("f", cls) EXCEPT !.required = required], value).val)
    /\ UNCHANGED <<inst, fresh, calls, kept, heap>>

NextSubschema ==
    \E cls \in ConstructedClasses : \E required \in BOOLEAN : \E value \in SubschemaValues(cls) :
        ValidateSubschema(cls, required, value)

SpecSubschema == Init /\ [][NextSubschema]_vars

\* the values the arguments of a Many or a ManySubmap evaluate to
ManyValues ==
    {PyNone, PyInt(1), PyDict(D1("wow", PyInt(1))), PyList(<<>>), PyList(<<PyInt(1), PyNone>>),
     PyList(<<PyDict(D1("wow", PyInt(1)))>>)}

ManySources == {PyDict(D2("a", x, "b", y)) : x \in ManyValues, y \in ManyValues}

\* argument lists of up to MaxKwargs + 1 nodes
ManyArgs ==
    UNION {[1..n -> {Get(<<"a">>, FALSE), Get(<<"b">>, FALSE)}] : n \in 0..(MaxKwargs + 1)}

ManyNodes == {Many("Int", args) : args \in ManyArgs} \cup {ManySubmap("Hm", args) : args \in ManyArgs}

\* node(source) for a Many or a ManySubmap; the evaluated arguments are kept
\* with the result
CallMany(node, source) ==
    /\ out = NoOut
    /\ out' = Out(node.t, CallArgs(node.args, source, <<>>).val, D1("sub", PyStr(node.sub)),
                  source, Eval(node, source).val)
    /\ UNCHANGED <<inst, fresh, calls, kept, heap>>

NextMany ==
    \E node \in ManyNodes : \E source \in ManySources : CallMany(node, source)

SpecMany == Init /\ [][NextMany]_vars

\* Many nodes over a sub-mapping: the class Submapping, a Submapping
\* instance and a ManySubmap instance as the element transform
ManySubmappingNodes ==
    {Many("Submapping", args) : args \in ManyArgs}
        \cup {ManyOver(Submapping("Hm", <<Get(<<"a">>, FALSE)>>), args) : args \in ManyArgs}
        \cup {ManyOver(ManySubmap("Hm", <<Get(<<"a">>, FALSE)>>), args) : args \in ManyArgs}

\* node(source) for a Many over a sub-mapping
CallManySubmapping(node, source) ==
    /\ out = NoOut
    /\ out' = Out("Many(Submapping)", CallArgs(node.args, source, <<>>).val,
                  D1("instance", PyBool(IsSubmappingInstance(node.value))),
                  source, Eval(node, source).val)
    /\ UNCHANGED <<inst, fresh, calls, kept, heap>>

NextManySubmapping ==
    \E node \in ManySubmappingNodes : \E source \in ManySources : CallManySubmapping(node, source)

SpecManySubmapping == Init /\ [][NextManySubmapping]_vars

\* the values a coercion node is handed: None, the falsy scalars, the empty
\* containers, numbers, and texts that do and do not read as numbers
CoerceValues ==
    {PyNone, PyBool(FALSE), PyBool(TRUE), PyFloat(0), PyFloat(3), PyStr(""), PyStr("1"),
     PyStr("1.5"), PyStr("x"), PyList(<<>>), PyDict(EmptyDict)}
        \cup {PyInt(n) : n \in 0..MaxInt}

\* Int, Num, Str or Bool over a constant or over a name of the source
CoerceArgs == {Get(<<"a">>, FALSE)} \cup {Const(value) : value \in CoerceValues}

\* node(source) for a coercion node; the evaluated argument is kept with the result
CallCoerce(t, required, arg, source) ==
    /\ out' = Out("Coerce", Eval(arg, source).val,
                  D2("t", PyStr(t), "required", PyBool(required)), PyStr(arg.t),
                  Eval(CoerceNode(t, arg, required), source).val)
    /\ UNCHANGED <<inst, fresh, calls, kept, heap>>

NextCoerce ==
    \E t \in {"Int", "Num", "Str", "Bool"} : \E required \in BOOLEAN :
        \E arg \in CoerceArgs : \E value \in CoerceValues :
            CallCoerce(t, required, arg, PyDict(D1("a", value)))

SpecCoerce == Init /\ [][NextCoerce]_vars

\* the innermost values of the structures that are serialized
DeepLeaves ==
    {PyNone, PyInt(1), PyStr("x"), GenericSchema(D1("a", PyInt(1))),
     SchemaInit("Person", <<>>, EmptyDict),
     SchemaInit("Person", <<>>, D2("first_name", PyStr("x"), "last_name", PyStr("x")))}

\* a leaf, and a leaf inside a list, a dict, a list of lists, a list of
\* dicts and a dict of lists
DeepValues ==
    UNION {{leaf, PyList(<<leaf>>), PyDict(D1("k", leaf)), PyList(<<PyList(<<leaf>>)>>),
            PyList(<<PyDict(D1("k", leaf))>>), PyDict(D1("k", PyList(<<leaf>>)))} : leaf \in DeepLeaves}

\* the instances that hold such a value: in a generic Field, in an
\* ObjectField, and as an attribute of a GenericSchema
DeepHolders(value) ==
    {SchemaInit("Holder", <<>>, D1("anything", value)), SchemaInit("Holder", <<>>, D1("obj", value)),
     GenericSchema(D1("x", value))}

\* holder.serialize(implicit_nulls=implicit_nulls)
SerializeDeep(holder, implicit_nulls) ==
    /\ out' = Out("serialize deep", PyBool(implicit_nulls), EmptyDict, holder,
                  serialize(holder, implicit_nulls).val)
    /\ UNCHANGED <<inst, fresh, calls, kept, heap>>

NextDeep ==
    \E value \in DeepValues : \E holder \in DeepHolders(value) : \E implicit_nulls \in BOOLEAN :
        SerializeDeep(holder, implicit_nulls)

SpecDeep == Init /\ [][NextDeep]_vars

\* the values without identity that are assigned to attributes
HeapValues == {PyNone, PyStr("x")}

\* the keywords an instance is made with on the heap
HeapKwargsOver(cls) ==
    {EmptyDict} \cup {D1(n, v) : n \in Range(FieldNames(cls)), v \in HeapValues}

\* the addresses of the Schema instances, and of the instances of one class
Instances == {a \in DOMAIN heap.objs : heap.objs[a].k = "inst"}

InstancesOf(cls) == {a \in Instances : heap.objs[a].v.cls = cls}

\* the state after an operation left the objects as r.objs
HeapStep(op, arg, kw, pre, r, assigned) ==
    /\ heap' = [objs |-> r.objs, assigned |-> assigned]
    /\ out' = Out(op, arg, kw, pre, r.val)
    /\ UNCHANGED <<inst, fresh, calls, kept>>

\* x = cls(**kwargs), while there is room for the instance and for an object
\* it makes (its nested instance, or a default it materialises)
HeapNew(cls, kwargs) ==
    /\ Len(heap.objs) + 2 <= MaxObjects
    /\ HeapStep("new", Ref(Len(heap.objs) + 1), kwargs, PyNone,
                HeapInit(heap.objs, cls, kwargs), heap.assigned)

\* x.name, x being the instance at address a; what was stored under the name
\* and how many objects there were are kept with the result
HeapGetAttr(a, name) ==
    /\ Len(HeapGetattr(heap.objs, a, name).objs) <= MaxObjects
    /\ HeapStep("getattr", Ref(a), D1("name", PyStr(name)),
                PyDict(D2("stored", DictGet(heap.objs[a].v.d, dedunder(name)),
                          "objects", PyInt(Len(heap.objs)))),
                HeapGetattr(heap.objs, a, name), heap.assigned)

\* x.name = value, x being the instance at address a and value a value without
\* identity or an object made before
HeapSetAttr(a, name, value) ==
    HeapStep("setattr", Ref(a), D2("name", PyStr(name), "value", value), PyNone,
             HeapRet(HeapSetattr(heap.objs, a, name, value), PyNone),
             heap.assigned \cup {<<a, n>> : n \in {dedunder(name)} \cap SubschemaNames(heap.objs[a].v.cls)})

\* what the statement x.name.sub = value does with the value it read as x.name
HeapSetThroughRead(a, name, sub, value, r) ==
    /\ r.val.k = "ref" /\ r.objs[r.val.v].k = "inst"
    /\ HeapStep("setthrough", Ref(a), D2("name", PyStr(name), "sub", PyStr(sub)),
                PyList(heap.objs),
                HeapRet(HeapSetattr(r.objs, r.val.v, sub, value), value), heap.assigned)

\* x.name.sub = value, x being the instance at address a
HeapSetThrough(a, name, sub, value) ==
    HeapSetThroughRead(a, name, sub, value, HeapGetattr(heap.objs, a, name))

\* what the statement x.name[key] = value does with the value it read as x.name
HeapSetItemRead(a, name, key, value, r) ==
    /\ r.val.k = "ref" /\ r.objs[r.val.v].k = "dict"
    /\ Len(r.objs) <= MaxObjects
    /\ HeapStep("setitem", Ref(a), D2("name", PyStr(name), "key", PyStr(key)),
                PyList(heap.objs),
                HeapRet(HeapSetitem(r.objs, r.val.v, key, value), value), heap.assigned)

\* x.name[key] = value, x being the instance at address a
HeapSetItem(a, name, key, value) ==
    HeapSetItemRead(a, name, key, value, HeapGetattr(heap.objs, a, name))

\* the values assigned to a Subschema attribute: None, and the nested
\* instances made before
NestedPool(cls) == {PyNone} \cup {Ref(b) : b \in InstancesOf(cls)}

\* instances with a nested schema are made, their attributes read and
\* assigned, and attributes assigned through the nested instances read from them
NextNested ==
    \/ \E kwargs \in HeapKwargsOver("Ship") : HeapNew("Ship", kwargs)
    \/ \E a \in InstancesOf("Ship") : HeapGetAttr(a, "captain")
    \/ \E a \in InstancesOf("Ship") : \E value \in NestedPool("Person") :
           HeapSetAttr(a, "captain", value)
    \/ \E a \in InstancesOf("Ship") : \E value \in HeapValues :
           HeapSetThrough(a, "captain", "first_name", value)

SpecNested == Init /\ [][NextNested]_vars

\* instances with a default factory are made, their attribute read and
\* assigned, and the object read from it changed in place
NextFactory ==
    \/ \E kwargs \in HeapKwargsOver("FooSchema") : HeapNew("FooSchema", kwargs)
    \/ \E a \in InstancesOf("FooSchema") : HeapGetAttr(a, "foo")
    \/ \E a \in InstancesOf("FooSchema") : \E value \in HeapValues : HeapSetAttr(a, "foo", value)
    \/ \E a \in InstancesOf("FooSchema") : HeapSetItem(a, "foo", "wow", PyInt(2))

SpecFactory == Init /\ [][NextFactory]_vars

----------------------------------------------------------------------------
(* Properties of schemas *)

\* Schema.serialize, lines 110-116, for one field: the value read, as the
\* field serializes it, itself serialized when it has serialize
SerializedValue(self, name, implicit_nulls) ==
    SerializeIfSchema(FieldSerialize(Fields(self.v.cls)[name], SchemaGetattr(self, name).val,
                                     implicit_nulls).val, implicit_nulls).val

\* the last read was s.serialize(implicit_nulls=b) of a Schema instance
Serialized(b) == out.op = "serialize" /\ out.arg = PyBool(b) /\ out.pre.k = "inst"

C2_ExplicitNullsKeepEveryField ==
    Serialized(FALSE) =>
        /\ out.val.k = "dict"
        /\ DOMAIN out.val.v = Range(FieldNames(out.pre.v.cls))

\* the classes that declare only scalar fields
ScalarOnly(cls) ==
    \A n \in DOMAIN Fields(cls) : Fields(cls)[n].type \in {"UnicodeField", "IntegerField"}

\* d is a flat dict of scalar values keyed by declared field names of cls
FlatScalarDict(cls, d) ==
    /\ DOMAIN d \subseteq Range(FieldNames(cls))
    /\ \A n \in DOMAIN d : d[n].k \in {"none", "bool", "int", "str", "bytes"}

\* the last read was Schema(d).serialize(implicit_nulls=False) on a class of
\* scalar fields only, d being the flat dict the instance was constructed from
RoundTrip ==
    /\ Serialized(FALSE) /\ fresh /\ calls = <<>>
    /\ ScalarOnly(out.pre.v.cls)
    /\ FlatScalarDict(out.pre.v.cls, out.pre.v.raw)

NonNullishSubfields(nested) ==
    {f \in Range(FieldNames(nested.v.cls)) :
        nullish(SchemaGetattr(nested, f).val, TRUE).val # PyBool(TRUE)}

\* the sub-fields of a nested instance whose serialized value is not nullish
SerializedSubfields(nested) ==
    {f \in Range(FieldNames(nested.v.cls)) :
        nullish(SerializedValue(nested, f, TRUE), TRUE).val # PyBool(TRUE)}

\* the value a Subschema field of the serialized instance held
Nested(n) == SchemaGetattr(out.pre, n).val

\* C4 as stated: under implicit_nulls=True a Subschema field holding None, an
\* empty dict or a nested instance whose sub-fields are all nullish is left
\* out, and one holding a nested instance with a non-nullish sub-field is
\* emitted with exactly its non-nullish sub-fields
C4_NestedCollapseAsStated ==
    (Serialized(TRUE) /\ out.val.k = "dict") =>
        \A n \in SubschemaNames(out.pre.v.cls) :
            /\ Nested(n) \in {PyNone, PyDict(EmptyDict)} => n \notin DOMAIN out.val.v
            /\ Nested(n).k = "inst" /\ NonNullishSubfields(Nested(n)) = {}
                  => n \notin DOMAIN out.val.v
            /\ Nested(n).k = "inst" /\ NonNullishSubfields(Nested(n)) # {}
                  => /\ n \in DOMAIN out.val.v
                     /\ out.val.v[n].k = "dict"
                     /\ DOMAIN out.val.v[n].v = NonNullishSubfields(Nested(n))

\* C4: under implicit_nulls=True a Subschema field holding None, an empty
\* dict or a nested instance whose sub-fields all serialize to nullish values
\* is left out, and one holding a nested instance with a sub-field whose
\* serialized value is not nullish is emitted as the dict of exactly those
\* sub-fields, each in its serialized form
C4_NestedCollapse ==
    (Serialized(TRUE) /\ out.val.k = "dict") =>
        \A n \in SubschemaNames(out.pre.v.cls) :
            /\ Nested(n) \in {PyNone, PyDict(EmptyDict)} => n \notin DOMAIN out.val.v
            /\ Nested(n).k = "inst" /\ SerializedSubfields(Nested(n)) = {}
                  => n \notin DOMAIN out.val.v
            /\ Nested(n).k = "inst" /\ SerializedSubfields(Nested(n)) # {}
                  => /\ n \in DOMAIN out.val.v
                     /\ out.val.v[n] = PyDict([f \in SerializedSubfields(Nested(n)) |->
                                                 SerializedValue(Nested(n), f, TRUE)])

\* C4 witness: a captain with a first name and no last name was emitted with
\* the first name only
C4_Witness ==
    /\ Serialized(TRUE) /\ out.val.k = "dict" /\ out.pre.v.cls = "Ship"
    /\ Nested("captain").k = "inst"
    /\ SerializedSubfields(Nested("captain")) = {"first_name"}
    /\ out.val.v["captain"] = PyDict(D1("first_name", PyStr("x")))

\* C5: an instance constructed with no values and never assigned to reports
\* is_empty == True, whatever fields and defaults its class declares
C5_UnassignedIsEmpty ==
    (/\ out.op = "is_empty" /\ out.pre.k = "inst"
     /\ fresh /\ calls = <<>> /\ out.pre.v.raw = EmptyDict)
        => out.val = PyBool(TRUE)

----------------------------------------------------------------------------
(* Properties of transformations and mappings *)

\* the single name k of Get(k) is absent from the source
Absent(source, k) ==
    CASE source.k \in {"dict", "obj", "generic"} -> k \notin DOMAIN source.v
      [] source.k = "inst" -> k \notin Range(FieldNames(source.v.cls)) /\ k \notin DOMAIN source.v.d
      [] OTHER -> FALSE

\* C6: for a dict, a plain object, a Schema instance or a GenericSchema
\* instance that lacks k, Get(k)(source) returns None and
\* Get(k, required=True)(source) raises Missing
C6_GetAbsentKey ==
    (/\ out.op = "Get" /\ Len(out.arg.v) = 1
     /\ Absent(out.pre, out.arg.v[1].v))
        => out.val = (IF out.kw["required"] = PyBool(TRUE) THEN Raise("Missing") ELSE PyNone)

\* the serialized result of an apply call (or the exception apply raised)
SerializedResult(val) == IF IsSchema(val) THEN serialize(val, FALSE).val ELSE val

\* the name a node reads from the source: Get(k) or Int(Get(k))
NodeKey(node) ==
    IF node.t = "Get" THEN node.path[1]
    ELSE IF node.t = "Int" THEN node.args[1].path[1]
    ELSE ""

\* the last apply call
LastCall == calls[Len(calls)]

MappingResult == fresh /\ calls # <<>> /\ inst.k = "inst"

\* the required fields of the instance whose value is None
NullRequired ==
    {n \in Range(FieldNames(inst.v.cls)) :
        Fields(inst.v.cls)[n].required /\ SchemaGetattr(inst, n).val = PyNone}

\* C8: serialize() of a Schema or GenericSchema instance never raises Invalid
\* or Missing, also when validate() raises Invalid on the instance; a mapping
\* result with a required field left None raises Invalid on validate() and
\* serialize(implicit_nulls=True) returns a dict without that key
C8_SerializeNeverRaisesInvalid ==
    /\ out.op = "serialize" => out.val \notin {Raise("Invalid"), Raise("Missing")}
    /\ (out.op = "validate" /\ out.val = Raise("Invalid")) =>
          \A b \in BOOLEAN : serialize(out.pre, b).val \notin {Raise("Invalid"), Raise("Missing")}
    /\ (MappingResult /\ NullRequired # {}) =>
          /\ validate(inst).val = Raise("Invalid")
          /\ serialize(inst, TRUE).val.k = "dict"
          /\ NullRequired \cap DOMAIN serialize(inst, TRUE).val.v = {}

\* C8 witness: a mapping result with a required field left None was
\* serialized into a dict, and validate() raises Invalid on it
C8_Witness ==
    /\ MappingResult /\ "bad" \in NullRequired
    /\ out.op = "serialize" /\ out.arg = PyBool(TRUE)
    /\ out.val = PyDict(D1("cool", PyInt(1)))
    /\ validate(inst).val = Raise("Invalid")

\* the source the last apply call loaded
Loaded == LoadSource(LastCall.mapping, LastCall.blob)

\* the value of the node declared under n, evaluated against the loaded source
NodeValue(n) == Eval(MappingFields(LastCall.mapping)[n], Loaded).val

\* the last apply call returned
Returned == calls # <<>> /\ ~IsRaise(LastCall.val)

\* the result is of the declared class: target_schema, else GenericSchema
ResultType ==
    IF TargetSchema(LastCall.mapping) = "" THEN LastCall.val.k = "generic"
    ELSE LastCall.val.k = "inst" /\ LastCall.val.v.cls = TargetSchema(LastCall.mapping)

\* reading the attribute n of the result
ResultAttr(n) ==
    IF LastCall.val.k = "inst" THEN SchemaGetattr(LastCall.val, n).val
    ELSE IF n \in DOMAIN LastCall.val.v THEN LastCall.val.v[n] ELSE Raise("AttributeError")

\* C9 as stated: apply returns an instance of target_schema, or a
\* GenericSchema when none is declared; the result holds under every declared
\* transformation name the value of its node; a GenericSchema result has
\* exactly the declared names as attributes
C9_ApplyResultAsStated ==
    Returned =>
        /\ ResultType
        /\ \A n \in DOMAIN MappingFields(LastCall.mapping) : ResultAttr(n) = NodeValue(n)
        /\ LastCall.val.k = "generic" => DOMAIN LastCall.val.v = DOMAIN MappingFields(LastCall.mapping)

\* C9: apply returns an instance of target_schema, or a GenericSchema when
\* none is declared; a GenericSchema result has exactly the declared names as
\* attributes, each holding the value of its node; a target_schema result
\* stores, under every declared name that is a field of the target, the
\* node's value as the field's setter stores it, and has no attribute for a
\* declared name that is no field of the target
C9_ApplyResult ==
    Returned =>
        /\ ResultType
        /\ LastCall.val.k = "generic" =>
              /\ DOMAIN LastCall.val.v = DOMAIN MappingFields(LastCall.mapping)
              /\ \A n \in DOMAIN LastCall.val.v : LastCall.val.v[n] = NodeValue(n)
        /\ LastCall.val.k = "inst" =>
              \A n \in DOMAIN MappingFields(LastCall.mapping) :
                  IF n \in Range(FieldNames(LastCall.val.v.cls))
                  THEN /\ n \in DOMAIN LastCall.val.v.d
                       /\ LastCall.val.v.d[n] = FieldCoerce(Fields(LastCall.val.v.cls)[n], NodeValue(n))
                  ELSE n \notin DOMAIN LastCall.val.v.d

\* C9 witness: a mapping declaring a name its target schema lacks returned a
\* target instance that stores the other name's value
C9_Witness ==
    /\ Returned /\ LastCall.mapping = "Loose"
    /\ LastCall.val.k = "inst" /\ LastCall.val.v.cls = "OtherSchema"
    /\ NodeValue("cool") = PyInt(1)
    /\ LastCall.val.v.d = D1("cool", PyInt(1))

----------------------------------------------------------------------------
(* Properties of construction *)

\* the instance was just constructed as cls(d, **kw)
Constructed == out.op = "init" /\ Len(out.arg.v) = 1 /\ out.arg.v[1].k = "dict"

\* d overlaid with kw, the keyword winning on a shared key
Overlaid ==
    [x \in (DOMAIN out.arg.v[1].v) \cup (DOMAIN out.kw) |->
        IF x \in DOMAIN out.kw THEN out.kw[x] ELSE out.arg.v[1].v[x]]

\* the keys of the overlaid dict that, un-escaped, name the field n
KeysFor(n) == {x \in DOMAIN Overlaid : InitKey(x) = n}

\* C10: cls(d, **kw) holds the field values of cls(**m), m being d overlaid
\* with kw; a field named by a key of m holds that key's value as the field's
\* setter stores it; a key naming no field becomes no attribute and no key of
\* serialize()
C10_ConstructionOverlay ==
    Constructed =>
        /\ inst.v.d = SchemaInit(inst.v.cls, <<>>, Overlaid).v.d
        /\ \A n \in Range(FieldNames(inst.v.cls)) :
              KeysFor(n) # {} =>
                  /\ n \in DOMAIN inst.v.d
                  /\ inst.v.d[n] \in {FieldCoerce(Fields(inst.v.cls)[n], Overlaid[x]) : x \in KeysFor(n)}
        /\ DOMAIN inst.v.d \subseteq Range(FieldNames(inst.v.cls))
        /\ \A b \in BOOLEAN :
              serialize(inst, b).val.k = "dict"
                  => DOMAIN serialize(inst, b).val.v \subseteq Range(FieldNames(inst.v.cls))

\* C10 witness: the dict and the keywords gave one field different values,
\* and the keyword's value is the one the field holds
C10_Witness ==
    /\ Constructed
    /\ \E x \in (DOMAIN out.kw) \cap (DOMAIN out.arg.v[1].v) :
          /\ x \in Range(FieldNames(inst.v.cls))
          /\ out.kw[x] # out.arg.v[1].v[x]
          /\ inst.v.d[x] = out.kw[x]
    /\ "zz" \in DOMAIN out.arg.v[1].v

----------------------------------------------------------------------------
(* Class definition: the field registry that HasFieldsMeta builds.  A class *)
(* is an object: its base (0 for Schema itself), its body as the names      *)
(* bound to fields in the order written, and its _field_names.              *)

\* the attribute names of the model in the order dir() lists them (sorted
\* as strings: "_" sorts before the lower-case letters)
DirOrder == <<"_Fancy__a", "_Fancy__if", "a", "b", "serialize">>

\* the attributes every schema class has that are not fields
Methods == {"serialize"}

\* the field attributes that class bodies bind
FieldAttrs == {"_Fancy__if", "a", "b"}

\* class bodies: some field attributes, each once, in the order written
Bodies ==
    {body \in UNION {[1..n -> FieldAttrs] : n \in 0..(MaxKwargs + 1)} :
        \A i, j \in DOMAIN body : body[i] = body[j] => i = j}

\* a class: bound is the field object behind each name of its body and
\* fields its _fields, both empty where the field objects are left out
Class(base, body, names) ==
    [k |-> "class", v |-> [base |-> base, body |-> body, field_names |-> names,
                           bound |-> EmptyDict, fields |-> EmptyDict]]

RECURSIVE ClassAttrs(_,_)
\* the names found on a class: its own, and those of its bases
ClassAttrs(objs, a) ==
    IF a = 0 THEN Methods ELSE Range(objs[a].v.body) \cup ClassAttrs(objs, objs[a].v.base)

\* dir(new_class)
Dir(objs, base, body) ==
    SelectSeq(DirOrder, LAMBDA n : n \in Range(body) \cup ClassAttrs(objs, base))

RECURSIVE RegisterFields(_)
\* the loop of HasFieldsMeta.__new__, lines 66-74
RegisterFields(names) ==
    IF names = <<>> THEN <<>>
    ELSE IF Head(names) \in Methods THEN RegisterFields(Tail(names))
    ELSE <<dedunder(Head(names))>> \o RegisterFields(Tail(names))

\* the names of the base's registry
Inherited(objs, base) == IF base = 0 THEN <<>> ELSE objs[base].v.field_names

\* a registry in declaration order: the inherited names, then the body's
HasFieldsMetaNewDeclared(objs, base, body) ==
    Class(base, body, Dedup(Inherited(objs, base) \o [i \in DOMAIN body |-> dedunder(body[i])]))

\* HasFieldsMeta.__new__
HasFieldsMetaNew(objs, base, body) ==
    Class(base, body, RegisterFields(Dir(objs, base, body)))

\* the names the loop of serialize(), lines 109-122, visits on an instance
\* of the class at address a
SerializeVisits(objs, a) ==
    PyList([i \in DOMAIN objs[a].v.field_names |-> PyStr(objs[a].v.field_names[i])])

Classes == {a \in DOMAIN heap.objs : heap.objs[a].k = "class"}

\* class K(base): <body>
DefineClass(base, body) ==
    /\ Len(heap.objs) + 3 <= MaxObjects
    /\ HeapStep("class", Ref(Len(heap.objs) + 1), EmptyDict, PyNone,
                Alloc(heap.objs, HasFieldsMetaNew(heap.objs, base, body)), heap.assigned)

\* K().serialize(), as far as the order of its loop
Visit(a) ==
    HeapStep("visit", Ref(a), EmptyDict, PyNone,
             HeapRet(heap.objs, SerializeVisits(heap.objs, a)), heap.assigned)

NextRegistry ==
    \/ \E base \in {0} \cup Classes : \E body \in Bodies : DefineClass(base, body)
    \/ \E a \in Classes : Visit(a)

SpecRegistry == Init /\ [][NextRegistry]_vars

\* f = IntegerField(): a field object, unnamed until a class registers it
FieldObject == [k |-> "field", v |-> [field_name |-> "unnamed"]]

FieldObjects == {a \in DOMAIN heap.objs : heap.objs[a].k = "field"}

RECURSIVE ClassGetattr(_, _, _)
\* getattr(new_class, name) for a name that dir(new_class) lists: the class's
\* own binding, else its base's
ClassGetattr(objs, a, name) ==
    IF name \in DOMAIN objs[a].v.bound THEN objs[a].v.bound[name]
    ELSE ClassGetattr(objs, objs[a].v.base, name)

\* HasFieldsMeta.__new__, lines 72 and 74: _fields[name] = attribute and
\* attribute.field_name = name, for the field object f found under an attribute
RegisterAttribute(objs, a, name, f) ==
    [objs EXCEPT ![a].v.fields = (name :> f) @@ @, ![f].v.field_name = name]

RECURSIVE RegisterAttributes(_, _, _)
\* the loop of HasFieldsMeta.__new__, lines 66-74, over the field objects
RegisterAttributes(objs, a, names) ==
    IF names = <<>> THEN objs
    ELSE IF Head(names) \in Methods THEN RegisterAttributes(objs, a, Tail(names))
    ELSE RegisterAttributes(
             RegisterAttribute(objs, a, dedunder(Head(names)), ClassGetattr(objs, a, Head(names))),
             a, Tail(names))

\* the class statement with its field objects: the class is made, then the
\* loop names the field objects that dir() finds on it
HasFieldsMetaNewBound(objs, base, body, bound) ==
    HeapRet(RegisterAttributes(
                Append(objs, [HasFieldsMetaNew(objs, base, body) EXCEPT !.v.bound = bound]),
                Len(objs) + 1, Dir(objs, base, body)),
            Ref(Len(objs) + 1))

\* the attributes that class bodies bind to field objects
DeclaredAttrs == {"_Fancy__a", "a", "b"}

\* the bindings of a class body: at most MaxKwargs + 1 attributes, each to a
\* field object that exists
Bindings ==
    UNION {[names -> FieldObjects] :
               names \in {n \in SUBSET DeclaredAttrs : Cardinality(n) <= MaxKwargs + 1}}

\* f = IntegerField()
NewFieldObject ==
    /\ Len(heap.objs) < MaxObjects
    /\ HeapStep("field", Ref(Len(heap.objs) + 1), EmptyDict, PyNone,
                Alloc(heap.objs, FieldObject), heap.assigned)

\* class K(base): name = f, ...  for field objects made before
DeclareClass(base, bound) ==
    /\ Len(heap.objs) < MaxObjects
    /\ HeapStep("class", Ref(Len(heap.objs) + 1), EmptyDict, PyNone,
                HasFieldsMetaNewBound(heap.objs, base,
                                      SelectSeq(DirOrder, LAMBDA n : n \in DOMAIN bound), bound),
                heap.assigned)

NextDeclare ==
    \/ NewFieldObject
    \/ \E base \in {0} \cup Classes : \E bound \in Bindings : DeclareClass(base, bound)

SpecDeclare == Init /\ [][NextDeclare]_vars

----------------------------------------------------------------------------
(* Properties of reserved names *)

\* the spellings of the field that class Fancy declares as __if: the escaped
\* name as written, the attribute name Python makes of it in the class body,
\* and the unescaped name
Spellings == {"__if", "_Fancy__if", "if"}

\* the spellings under which the instance stores a value other than None
Spelled == {x \in Spellings \cap DOMAIN inst.v.d : inst.v.d[x] # PyNone}

\* C12: once a value was given to the field declared as __if, through
\* whichever spelling, the instance stores it under the unescaped name only,
\* a read through every spelling returns it, and what serialize() returns has
\* the unescaped key with that value and no escaped key
C12_ReservedNameTransparency ==
    (inst.k = "inst" /\ inst.v.cls = "Fancy" /\ Spelled # {}) =>
        /\ Spelled = {"if"}
        /\ \A x \in Spellings : SchemaGetattr(inst, x).val = inst.v.d["if"]
        /\ serialize(inst, FALSE).val.k = "dict" =>
               /\ DOMAIN serialize(inst, FALSE).val.v = Range(FieldNames("Fancy"))
               /\ serialize(inst, FALSE).val.v["if"] = inst.v.d["if"]

----------------------------------------------------------------------------
(* Properties of All *)

\* a value that serializes as itself
Scalar(value) == value.k \in {"none", "bool", "int", "str"}

\* a scalar value as it stands in the serialized dict: itself, or the empty
\* dict for the None of a Subschema field ("a Subschema serializes as a dict")
Stands(field, value, rendered) ==
    \/ rendered = value
    \/ field.type = "Subschema" /\ value = PyNone /\ rendered = PyDict(EmptyDict)

\* the dict has exactly the keys, and under each key the value that the
\* instance has for it, where that value is a scalar
HasValues(f, keys, self) ==
    /\ DOMAIN f = keys
    /\ \A name \in keys \cap Range(FieldNames(self.v.cls)) :
           Scalar(SchemaGetattr(self, name).val) =>
               Stands(Fields(self.v.cls)[name], SchemaGetattr(self, name).val, f[name])
    /\ \A name \in keys \ Range(FieldNames(self.v.cls)) :
           Scalar(self.v.raw[name]) => f[name] = self.v.raw[name]

\* C15: on a Schema instance m, whatever it was constructed with and whatever
\* was assigned to its fields since, All(strict=False)(m).serialize() is a
\* dict of the keys of the constructor input and the declared fields, with
\* the current value of every declared field and the input's value of every
\* other key, and All(strict=True)(m).serialize() is a dict of the declared
\* fields with their current values; on a source that is no schema
\* instance All returns the source itself
C15_AllOnSchema ==
    /\ (out.op = "All.serialize" /\ out.arg = PyBool(FALSE)) =>
           /\ out.val.k = "dict"
           /\ HasValues(out.val.v, DOMAIN out.pre.v.raw \cup Range(FieldNames(out.pre.v.cls)), out.pre)
    /\ (out.op = "All.serialize" /\ out.arg = PyBool(TRUE)) =>
           /\ out.val.k = "dict"
           /\ HasValues(out.val.v, Range(FieldNames(out.pre.v.cls)), out.pre)
    /\ out.op = "All" => out.val = out.pre

----------------------------------------------------------------------------
(* Properties of Submapping *)

\* C17: an outer mapping whose only field is Submapping(Inner, Get('inner')),
\* with or without schemas declared on the outer and on the inner mapping,
\* applied to {'inner': {}}, {'inner': None}, {} or None raises no error, and
\* serialize(implicit_nulls=True) of its result is the empty dict
C17_NullishSubmapping ==
    (Len(calls) = 1 /\ calls[1].mapping \in OuterClasses /\ calls[1].blob \in Empties) =>
        /\ IsSchema(calls[1].val)
        /\ (out.op = "serialize" /\ out.arg = PyBool(TRUE)) => out.val = PyDict(EmptyDict)

\* an outer mapping that declares a source schema, over an inner mapping that
\* declares none, was applied to None, and its result serialized with
\* implicit nulls
C17_Witness ==
    /\ Len(calls) = 1
    /\ SourceSchema(calls[1].mapping) = "Source"
    /\ MappingFields(calls[1].mapping)["inner"].sub = "InnerNoschema"
    /\ calls[1].blob = PyNone
    /\ out.op = "serialize"
    /\ out.arg = PyBool(TRUE)
    /\ out.val = PyDict(EmptyDict)

----------------------------------------------------------------------------
(* Properties of GenericSchema *)

\* the attributes of the class itself
GenericClassAttrs == GenericMethods \cup GenericProperties

\* a stored value that counts as nullish
NullishValue(value) == IF IsSchema(value) THEN is_empty(value).val = PyBool(TRUE) ELSE value \in NULLISH

\* what the claim says of the operation last made, for the attribute names
\* of the set names
GenericBehaves(names) ==
    /\ (out.op = "init" /\ DOMAIN out.kw \subseteq names) => inst = GenericSchema(out.kw)
    /\ (out.op = "setattr" /\ out.arg.v \in names) =>
           /\ out.val = PyNone
           /\ inst = GenericSchema(Put(out.pre.v, out.arg.v, out.kw.value))
    /\ (out.op = "getattr" /\ out.arg.v \in names) =>
           out.val = IF out.arg.v \in DOMAIN out.pre.v THEN out.pre.v[out.arg.v] ELSE PyNone
    /\ (out.op = "validate" /\ DOMAIN out.pre.v \subseteq names) => out.val = PyBool(TRUE)
    /\ (out.op = "is_empty" /\ DOMAIN out.pre.v \subseteq names) =>
           out.val = PyBool(\A name \in DOMAIN out.pre.v : NullishValue(out.pre.v[name]))

\* C18 as stated: on a GenericSchema, for every attribute name, construction
\* and assignment store the value, a read returns the value stored last or
\* None when there is none, validate() returns True, and is_empty is True
\* exactly when every stored value is nullish
C18_GenericSchema == GenericBehaves(GenericNames)

\* C18, amended: the same, for the attribute names that are not attributes of
\* the class GenericSchema itself
C18_GenericSchemaOwnNames == GenericBehaves(GenericNames \ GenericClassAttrs)

\* an attribute never assigned was read as None after another was assigned
C18_Witness ==
    /\ out.op = "getattr"
    /\ out.arg = PyStr("qux")
    /\ out.pre.k = "generic"
    /\ DOMAIN out.pre.v = {"foo"}
    /\ out.val = PyNone

----------------------------------------------------------------------------
(* Properties of the scalar type fields *)

\* the classes a value is an instance of: its own class and the bases of it
\* (bool is a subclass of int)
ClassesOf(value) == IF value.k = "bool" THEN {"bool", "int", "object"} ELSE {value.k, "object"}

\* field_type of a scalar type field
FieldType(type) ==
    CASE type = "BooleanField" -> "bool"
      [] type = "IntegerField" -> "int"
      [] type = "NumberField" -> "float"

\* C19: validate(v) of a Boolean, Integer or Number field returns True
\* exactly when v is an instance of the field's type, or v is None and the
\* field is not required, and raises Invalid in every other case
C19_ScalarValidate ==
    out.op = "Field.validate" =>
        out.val = IF \/ FieldType(out.kw.type.v) \in ClassesOf(out.arg)
                     \/ out.arg = PyNone /\ out.kw.required = PyBool(FALSE)
                  THEN PyBool(TRUE)
                  ELSE Raise("Invalid")

\* a required Number field was handed an integer and raised Invalid
C19_Witness ==
    /\ out.op = "Field.validate"
    /\ out.kw.type = PyStr("NumberField")
    /\ out.kw.required = PyBool(TRUE)
    /\ out.arg = PyInt(1)
    /\ out.val = Raise("Invalid")

----------------------------------------------------------------------------
(* Properties of Subschema.validate *)

\* the value is None, the empty dict, or a schema instance that reports
\* itself empty
EmptyValue(value) ==
    \/ value \in {PyNone, PyDict(EmptyDict)}
    \/ IsSchema(value) /\ is_empty(value).val = PyBool(TRUE)

\* the value as the nested schema validates it: the instance, or the nested
\* class constructed from the value
AsNested(cls, value) == IF IsSchema(value) THEN value ELSE SchemaInit(cls, <<value>>, EmptyDict)

\* the class declares a required field
HasRequired(cls) == \E name \in DOMAIN Fields(cls) : Fields(cls)[name].required

\* C20: Subschema.validate of a field that is not required returns True for
\* None, the empty dict and a nested instance that reports itself empty,
\* whatever the nested schema requires; of a required field it raises
\* Invalid for None, and for any other value does what validating the value
\* as the nested schema does, which for the empty dict and an empty
\* instance of a nested schema with a required field is to raise Invalid
C20_SubschemaValidate ==
    out.op = "Subschema.validate" =>
        /\ (out.kw.required = PyBool(FALSE) /\ EmptyValue(out.arg)) => out.val = PyBool(TRUE)
        /\ (out.kw.required = PyBool(TRUE) /\ out.arg = PyNone) => out.val = Raise("Invalid")
        /\ (out.kw.required = PyBool(TRUE) /\ out.arg # PyNone) =>
               out.val = IF IsRaise(validate(AsNested(out.kw.cls.v, out.arg)).val)
                         THEN validate(AsNested(out.kw.cls.v, out.arg)).val
                         ELSE PyBool(TRUE)
        /\ (/\ out.kw.required = PyBool(TRUE)
            /\ HasRequired(out.kw.cls.v)
            /\ out.arg \in {PyDict(EmptyDict), SchemaInit(out.kw.cls.v, <<>>, EmptyDict)}) =>
               out.val = Raise("Invalid")

----------------------------------------------------------------------------
(* Properties of Many and ManySubmap *)

\* the evaluated arguments that are not None
Remaining == SelectSeq(out.arg.v, LAMBDA i : i # PyNone)

\* the element list: several remaining arguments are the list, a single list
\* is the list, a single other value is the only element, none is no element
Elements ==
    CASE Len(Remaining) > 1 -> Remaining
      [] Len(Remaining) = 1 /\ Remaining[1].k = "list" -> Remaining[1].v
      [] Len(Remaining) = 1 -> Remaining
      [] OTHER -> <<>>

\* sub, or a fresh mapping of class M, applied to an element
EntryFor(element) ==
    IF out.op = "Many" THEN Subtrans(out.kw.sub.v, element)
    ELSE MappingApply(out.kw.sub.v, element, EmptyDict).val

\* C16: Many(sub, a1..an) and ManySubmap(M, a1..an) return one entry per
\* element of the element list, in order, each being sub (or a fresh M)
\* applied to that element; when applying it to an element raises, the
\* call raises
C16_ManyElements ==
    out.op \in {"Many", "ManySubmap"} =>
        IF \E i \in DOMAIN Elements : IsRaise(EntryFor(Elements[i]))
        THEN IsRaise(out.val)
        ELSE out.val = PyList([i \in DOMAIN Elements |-> EntryFor(Elements[i])])

\* a ManySubmap was called with two arguments, one of them None and the
\* other a list with an element, and returned a list with an entry
C16_Witness ==
    /\ out.op = "ManySubmap"
    /\ Len(out.arg.v) = 2
    /\ out.arg.v[1] = PyNone
    /\ out.arg.v[2].k = "list"
    /\ out.val.k = "list"
    /\ Len(out.val.v) = 1
    /\ out.val.v[1] = GenericSchema(D1("wow", PyInt(1)))

----------------------------------------------------------------------------
(* Properties of the field registry *)

\* the position of an attribute name in dir()'s order
Rank(n) == CHOOSE i \in DOMAIN DirOrder : DirOrder[i] = n

\* the field attributes of the class at address a, own and inherited
FieldAttrsOf(a) == ClassAttrs(heap.objs, a) \ Methods

\* the registry of the class at address a
Registry(a) == heap.objs[a].v.field_names

\* the names of a class body as the registry spells them
Unescaped(body) == [i \in DOMAIN body |-> dedunder(body[i])]

\* serialize() visits the fields in the order of the registry
VisitsRegistry ==
    out.op = "visit" =>
        out.val = PyList([i \in DOMAIN Registry(out.arg.v) |-> PyStr(Registry(out.arg.v)[i])])

\* C13 as stated: the registry lists the inherited fields first, then the
\* class's own fields in the order declared, and serialize() visits the
\* fields in the order of the registry
C13_RegistryInDeclarationOrder ==
    /\ \A a \in Classes :
           Registry(a) = Dedup(Inherited(heap.objs, heap.objs[a].v.base)
                               \o Unescaped(heap.objs[a].v.body))
    /\ VisitsRegistry

\* C13, amended: the registry lists every field of the class once, own and
\* inherited alike, in ascending order of the attribute names as declared
\* (before unescaping), whatever the order of declaration and whichever class
\* declared them, and serialize() visits the fields in the order of the registry
C13_RegistryInAttributeOrder ==
    /\ \A a \in Classes :
           /\ Len(Registry(a)) = Cardinality(FieldAttrsOf(a))
           /\ \A n \in FieldAttrsOf(a) :
                  Registry(a)[Cardinality({m \in FieldAttrsOf(a) : Rank(m) < Rank(n)}) + 1]
                      = dedunder(n)
    /\ VisitsRegistry

\* serialize() has visited the fields of a subclass that declared its own
\* fields in descending order, one of them sorting before an inherited field
C13_Witness ==
    /\ out.op = "visit"
    /\ heap.objs[out.arg.v].v.base # 0
    /\ Len(heap.objs[out.arg.v].v.body) = 2
    /\ Rank(heap.objs[out.arg.v].v.body[1]) > Rank(heap.objs[out.arg.v].v.body[2])
    /\ \E n \in Range(heap.objs[heap.objs[out.arg.v].v.base].v.body) :
           Rank(heap.objs[out.arg.v].v.body[2]) < Rank(n)

----------------------------------------------------------------------------
(* Properties of objects with identity *)

\* the Subschema field f of the instance at p was given no value at
\* construction and was never assigned
Untouched(p, f) ==
    /\ \A x \in DOMAIN heap.objs[p].v.raw : InitKey(x) # f
    /\ <<p, f>> \notin heap.assigned

\* the <<instance, Subschema field>> pairs that are untouched
UntouchedPairs ==
    {pf \in Instances \X {"captain", "pair"} :
        pf[2] \in SubschemaNames(heap.objs[pf[1]].v.cls) /\ Untouched(pf[1], pf[2])}

\* what x.f.sub reads, x being the instance at address p of the objects objs
ReadThroughNested(objs, sub, r) ==
    IF r.val.k = "ref" THEN HeapGetattr(r.objs, r.val.v, sub).val ELSE Raise("AttributeError")

ReadThrough(objs, p, f, sub) == ReadThroughNested(objs, sub, HeapGetattr(objs, p, f))

\* C11: reading a Subschema field that was given no value at construction
\* and was never assigned returns an instance of the declared nested class,
\* never None, which is empty when the parent is made; no two such fields
\* hold the same nested instance; and a sub-field assigned through the
\* nested instance read from one parent is what that parent reads
\* afterwards, while every other parent reads what it read before
C11_NestedInstancePerParent ==
    \A pf \in UntouchedPairs :
        /\ HeapGetattr(heap.objs, pf[1], pf[2]).val.k = "ref"
        /\ Deref(heap.objs, HeapGetattr(heap.objs, pf[1], pf[2]).val).k = "inst"
        /\ Deref(heap.objs, HeapGetattr(heap.objs, pf[1], pf[2]).val).v.cls
              = Fields(heap.objs[pf[1]].v.cls)[pf[2]].subschema_class
        /\ (out.op = "new" /\ out.arg = Ref(pf[1])) =>
              Deref(heap.objs, HeapGetattr(heap.objs, pf[1], pf[2]).val).v.d = EmptyDict
        /\ \A qg \in UntouchedPairs \ {pf} :
              HeapGetattr(heap.objs, qg[1], qg[2]).val # HeapGetattr(heap.objs, pf[1], pf[2]).val
        /\ (out.op = "setthrough" /\ out.arg = Ref(pf[1]) /\ out.kw["name"] = PyStr(pf[2])) =>
              /\ ReadThrough(heap.objs, pf[1], pf[2], "first_name") = out.val
              /\ \A qg \in UntouchedPairs \ {pf} :
                    ReadThrough(heap.objs, qg[1], qg[2], "first_name")
                        = ReadThrough(out.pre.v, qg[1], qg[2], "first_name")

\* C11 witness: of two parents never assigned to, one reads the first name
\* assigned through its nested instance and the other reads None
C11_Witness ==
    /\ Cardinality(UntouchedPairs) = 2
    /\ out.op = "setthrough" /\ out.arg = Ref(1) /\ out.val = PyStr("x")
    /\ ReadThrough(heap.objs, 1, "captain", "first_name") = PyStr("x")
    /\ \E q \in InstancesOf("Ship") \ {1} : ReadThrough(heap.objs, q, "captain", "first_name") = PyNone

\* what x.name reads, as a value: the object a reference read points to
ReadValueOf(r) == Deref(r.objs, r.val)

ReadValue(objs, a, name) == ReadValueOf(HeapGetattr(objs, a, name))

\* the value every call of the factory of foo builds
Product == Fields("FooSchema")["foo"].default.v

\* C14: for a field whose default is a factory, a read made while None (or
\* nothing) is stored returns a new object built by the factory and stores
\* it in that instance only; a read made while a non-null value is stored
\* returns that value; no two instances hold the same object; and changing
\* in place the object read from one instance leaves what every other
\* instance reads as it was
C14_FactoryDefaultPerInstance ==
    /\ (out.op = "getattr" /\ out.pre.v["stored"] = PyNone) =>
          /\ out.val.k = "ref" /\ out.val.v > out.pre.v["objects"].v
          /\ heap.objs[out.val.v] = Product
          /\ heap.objs[out.arg.v].v.d["foo"] = out.val
          /\ \A b \in Instances \ {out.arg.v} : DictGet(heap.objs[b].v.d, "foo") # out.val
    /\ (out.op = "getattr" /\ out.pre.v["stored"] # PyNone) => out.val = out.pre.v["stored"]
    /\ \A a, b \in Instances :
          (a # b /\ DictGet(heap.objs[a].v.d, "foo").k = "ref")
              => DictGet(heap.objs[a].v.d, "foo") # DictGet(heap.objs[b].v.d, "foo")
    /\ out.op = "setitem" =>
          /\ ReadValue(heap.objs, out.arg.v, "foo").v["wow"] = out.val
          /\ \A b \in Instances \ {out.arg.v} :
                ReadValue(heap.objs, b, "foo") = ReadValue(out.pre.v, b, "foo")

\* C14 witness: the object read from one instance was changed in place after
\* another instance had materialised its own, which still reads as built
C14_Witness ==
    /\ out.op = "setitem" /\ out.val = PyInt(2)
    /\ ReadValue(heap.objs, out.arg.v, "foo") = PyDict(D1("wow", PyInt(2)))
    /\ \E b \in Instances \ {out.arg.v} :
          /\ DictGet(heap.objs[b].v.d, "foo").k = "ref"
          /\ ReadValue(heap.objs, b, "foo") = Product

----------------------------------------------------------------------------
(* Properties of ArrayField.validate *)

\* the item is an instance of the element schema that validates, or a dict
\* that validates once converted to the element schema
ItemValidates(array_type, item) ==
    \/ /\ item.k = "inst" /\ item.v.cls = array_type
       /\ validate(item).val = PyBool(TRUE)
    \/ /\ item.k = "dict"
       /\ validate(SchemaInit(array_type, <<item>>, EmptyDict)).val = PyBool(TRUE)

\* the item is an instance of the element schema that fails validation, an
\* instance of a different schema, or a dict that does not validate
ItemFails(array_type, item) ==
    \/ IsSchema(item) /\ ~ItemValidates(array_type, item)
    \/ item.k = "dict" /\ ~ItemValidates(array_type, item)

\* C21: ArrayField.validate over a list checks every item: with a nested
\* schema element type it returns True only if every item validates as the
\* element schema and raises Invalid if any item, at any position, is a
\* failing instance, an instance of another schema or a dict that does not
\* validate; with a primitive element type it raises Invalid if any item is
\* not of that type
C21_ArrayValidatesEveryItem ==
    (out.op = "ArrayField.validate" /\ out.arg.k = "list") =>
        IF out.kw.array_type.v \in SchemaClasses
        THEN /\ out.val = PyBool(TRUE) =>
                   \A i \in DOMAIN out.arg.v : ItemValidates(out.kw.array_type.v, out.arg.v[i])
             /\ (\E i \in DOMAIN out.arg.v : ItemFails(out.kw.array_type.v, out.arg.v[i])) =>
                   out.val = Raise("Invalid")
        ELSE (\E i \in DOMAIN out.arg.v : out.arg.v[i].k \notin {"int", "bool"}) =>
                   out.val = Raise("Invalid")

----------------------------------------------------------------------------
(* Properties of Get over a path *)

RECURSIVE MissingStep(_, _)

\* a segment before the last one is missing from the value the walk has
\* reached at it
MissingStep(source, path) ==
    /\ Len(path) > 1
    /\ \/ Absent(source, Head(path))
       \/ /\ ~Absent(source, Head(path))
          /\ MissingStep(GetOne(FALSE, source, Head(path)).val, Tail(path))

\* the names of the path of the node that was called
PathOf(arg) == [i \in DOMAIN arg.v |-> arg.v[i].v]

\* C22: for Get(p1, ..., pn) with required=False, when a segment before the
\* last is missing from the current value the whole Get returns None,
\* whatever the later segments name
C22_MissingStepIsTerminal ==
    (/\ out.op = "Get" /\ out.kw["required"] = PyBool(FALSE)
     /\ MissingStep(out.pre, PathOf(out.arg)))
        => out.val = PyNone

----------------------------------------------------------------------------
(* Properties of field objects and the classes that declare them *)

\* C23: once a class has registered a field object, the name on the object
\* never changes, whatever classes are defined afterwards
C23_FieldNameAssignedOnce ==
    [][\A f \in FieldObjects :
           heap.objs[f].v.field_name # "unnamed"
               => heap'.objs[f].v.field_name = heap.objs[f].v.field_name]_vars

\* the attributes of the body of class a that register under the name n
OwnAttrs(a, n) == {attr \in DOMAIN heap.objs[a].v.bound : dedunder(attr) = n}

\* class a declares a name that a class it inherits from registered
Redeclares(a, n) ==
    /\ heap.objs[a].v.base # 0
    /\ n \in Range(heap.objs[heap.objs[a].v.base].v.field_names)
    /\ Cardinality(OwnAttrs(a, n)) = 1

\* C24: the registered field names of a class hold no name twice, also when
\* a subclass declares again a name of its parent and either declaration is
\* in the escaped form, and _fields then holds the subclass's field for it
C24_NoDuplicateNames ==
    \A a \in Classes :
        /\ \A i, j \in DOMAIN Registry(a) : Registry(a)[i] = Registry(a)[j] => i = j
        /\ \A n \in Range(Registry(a)) :
               Redeclares(a, n) =>
                   \A attr \in OwnAttrs(a, n) : heap.objs[a].v.fields[n] = heap.objs[a].v.bound[attr]

----------------------------------------------------------------------------
(* Properties of the serialization of lists *)

\* the list that was serialized, as the output holds it; a GenericSchema
\* leaves the whole attribute out when it is nullish under implicit_nulls
ListOut ==
    IF out.op = "ArrayField.serialize" THEN out.val
    ELSE IF "x" \in DOMAIN out.val.v THEN out.val.v["x"] ELSE PyList(<<>>)

\* the flattened form of an item under nullish-dropping
Flattened(item) ==
    IF out.op = "ArrayField.serialize" THEN SerializeIfSchema(item, TRUE).val
    ELSE SerializeValue(item, TRUE).val

\* C25: with implicit_nulls=False the serialized list has the length of the
\* list value, every item being represented; with implicit_nulls=True it
\* holds exactly the items whose flattened form is not nullish
C25_ListItemsDropped ==
    out.op \in {"ArrayField.serialize", "GenericSchema.serialize"} =>
        /\ ListOut.k = "list"
        /\ IF out.kw.implicit_nulls = PyBool(FALSE)
           THEN Len(ListOut.v) = Len(out.arg.v)
           ELSE ListOut.v = SelectSeq([i \in DOMAIN out.arg.v |-> Flattened(out.arg.v[i])],
                                      LAMBDA flat : nullish(flat, TRUE).val = PyBool(FALSE))

----------------------------------------------------------------------------
(* Properties of Many over a sub-mapping *)

\* C26: a Many whose element transform is Submapping, given as the class or
\* as an instance, raises ValueError whatever its arguments evaluate to
C26_ManySubmappingRejected ==
    out.op = "Many(Submapping)" => out.val = Raise("ValueError")

----------------------------------------------------------------------------
(* Properties of the coercion nodes *)

\* the value is None or, for Str only, the empty text
NullLike(t, value) == value = PyNone \/ (t = "Str" /\ value = PyStr(""))

\* C27: a coercion node that is not required returns None (for Str also the
\* empty text) unchanged; in every other case, for the falsy values 0 and
\* False and for a null-like value of a required node as well, it returns
\* the target type's conversion of the value or raises what the conversion raises
C27_CoercePassesOnlyNullLike ==
    out.op = "Coerce" =>
        out.val = IF out.kw.required = PyBool(FALSE) /\ NullLike(out.kw.t.v, out.arg)
                  THEN out.arg
                  ELSE TargetType(out.kw.t.v, out.arg)

\* a Bool node that is not required was handed 0 and returned False, or a
\* required Int node was handed None and the conversion raised TypeError
C27_Witness ==
    /\ out.op = "Coerce"
    /\ \/ /\ out.kw.t = PyStr("Bool") /\ out.kw.required = PyBool(FALSE)
          /\ out.arg = PyInt(0) /\ out.val = PyBool(FALSE)
       \/ /\ out.kw.t = PyStr("Int") /\ out.kw.required = PyBool(TRUE)
          /\ out.arg = PyNone /\ out.val = Raise("TypeError")

----------------------------------------------------------------------------
(* Properties of the serialization of nested structures *)

RECURSIVE Plain(_)

\* the value is null, a boolean, a number, text, or a dict or list of such
\* values at every depth
Plain(value) ==
    CASE value.k \in {"none", "bool", "int", "float", "str"} -> TRUE
      [] value.k = "list" -> \A i \in DOMAIN value.v : Plain(value.v[i])
      [] value.k = "dict" -> \A key \in DOMAIN value.v : Plain(value.v[key])
      [] OTHER -> FALSE

\* C28: the output of serialize() of a Schema or GenericSchema instance
\* holds no Schema or GenericSchema instance at any depth, however schema
\* instances are nested in the dicts and lists of its field values
C28_SerializedIsPlain ==
    out.op = "serialize deep" => Plain(out.val)

----------------------------------------------------------------------------
(* Properties of the source of a node *)

\* the stored values of the fields of a Schema instance
Stored(self) == [n \in Range(FieldNames(self.v.cls)) |-> DictGet(self.v.d, n)]

\* C29: a node that was called has left its source as it was: a dict is
\* unchanged, and every field of a Schema instance, also one that was never
\* set and has a declared default, holds the stored value it held before
C29_SourceUnchanged ==
    (out.op \in {"Get", "Int", "Const"} /\ out.pre.k \in {"dict", "inst"}) =>
        IF out.pre.k = "inst" THEN inst.k = "inst" /\ Stored(inst) = Stored(out.pre)
        ELSE inst = out.pre

----------------------------------------------------------------------------
(* Properties of the raw snapshot *)

\* the name is in escaped form: as written with two leading underscores, or
\* as Python spells it inside the class body
Escaped(name) == StartsWithDunder(Chars(name)) \/ dedunder(name) # name

\* C30: the serialization of the raw snapshot of a schema instance, which
\* All(strict=False) returns, has no key in escaped form, also when the
\* instance was constructed with a keyword in escaped form
C30_RawSnapshotUnescaped ==
    (out.op = "All.serialize" /\ out.arg = PyBool(FALSE) /\ out.val.k = "dict") =>
        \A key \in DOMAIN out.val.v : ~Escaped(key)

====
